---- MODULE Spec2Model ----
(***************************************************************************)
(* A model of the redis-clone server: the RESP frame codec                 *)
(* (resp_parser.cpp), the keyspace engine and command dispatcher           *)
(* (dispatcher.cpp) and the poll() event loop (main.cpp).                  *)
(*                                                                         *)
(* Byte strings (std::string) are TLA+ strings; a byte is a string of      *)
(* length one.  Positions are 0-based as in the C++ code.                  *)
(***************************************************************************)
EXTENDS Integers, Sequences, FiniteSets, TLC

(***************************************************************************)
(* Byte-string helpers (std::string operations used by the code).          *)
(***************************************************************************)

\* s[pos], 0-based; "" when pos is outside the string
At(s, pos) == IF pos >= 0 /\ pos < Len(s) THEN SubSeq(s, pos + 1, pos + 1) ELSE ""

\* s.substr(pos)
From(s, pos) == SubSeq(s, pos + 1, Len(s))

\* string(s.data() + pos, n)
Mid(s, pos, n) == SubSeq(s, pos + 1, pos + n)

Digits == {"0", "1", "2", "3", "4", "5", "6", "7", "8", "9"}

DigitVal(c) ==
    CASE c = "0" -> 0 [] c = "1" -> 1 [] c = "2" -> 2 [] c = "3" -> 3
      [] c = "4" -> 4 [] c = "5" -> 5 [] c = "6" -> 6 [] c = "7" -> 7
      [] c = "8" -> 8 [] c = "9" -> 9

DigitChar(d) ==
    CASE d = 0 -> "0" [] d = 1 -> "1" [] d = 2 -> "2" [] d = 3 -> "3"
      [] d = 4 -> "4" [] d = 5 -> "5" [] d = 6 -> "6" [] d = 7 -> "7"
      [] d = 8 -> "8" [] d = 9 -> "9"

\* std::to_string of a non-negative integer
RECURSIVE NatToString(_)
NatToString(n) ==
    IF n < 10 THEN DigitChar(n) ELSE NatToString(n \div 10) \o DigitChar(n % 10)

\* std::to_string of a signed integer
to_string(n) == IF n < 0 THEN "-" \o NatToString(-n) ELSE NatToString(n)

\* toupper() on one byte: the lower-case ASCII letters map to upper case,
\* every other byte to itself
UpperOf ==
    [c \in {"a", "b", "c", "d", "e", "f", "g", "h", "i", "j", "k", "l", "m",
            "n", "o", "p", "q", "r", "s", "t", "u", "v", "w", "x", "y", "z"} |->
        CASE c = "a" -> "A" [] c = "b" -> "B" [] c = "c" -> "C" [] c = "d" -> "D"
          [] c = "e" -> "E" [] c = "f" -> "F" [] c = "g" -> "G" [] c = "h" -> "H"
          [] c = "i" -> "I" [] c = "j" -> "J" [] c = "k" -> "K" [] c = "l" -> "L"
          [] c = "m" -> "M" [] c = "n" -> "N" [] c = "o" -> "O" [] c = "p" -> "P"
          [] c = "q" -> "Q" [] c = "r" -> "R" [] c = "s" -> "S" [] c = "t" -> "T"
          [] c = "u" -> "U" [] c = "v" -> "V" [] c = "w" -> "W" [] c = "x" -> "X"
          [] c = "y" -> "Y" [] c = "z" -> "Z"]

UpperChar(c) == IF c \in DOMAIN UpperOf THEN UpperOf[c] ELSE c

RECURSIVE UpperFrom(_, _)
UpperFrom(s, i) ==
    IF i > Len(s) THEN "" ELSE UpperChar(SubSeq(s, i, i)) \o UpperFrom(s, i + 1)

toUpperASCII(s) == UpperFrom(s, 1)

(***************************************************************************)
(* RespValue (resp_types.h) and its constructors.                          *)
(***************************************************************************)

\* RespValue{t}: the aggregate with every other member default-initialised
RespValue(t) ==
    [type |-> t, buf |-> "", integer |-> 0, array |-> <<>>, is_null |-> FALSE]

makeSimpleString(s) == [RespValue("SimpleString") EXCEPT !.buf = s]
makeError(s) == [RespValue("Error") EXCEPT !.buf = s]
makeInteger(v) == [RespValue("Integer") EXCEPT !.integer = v]
makeBulkString(s) == [RespValue("BulkString") EXCEPT !.buf = s]
makeNullBulkString == [RespValue("BulkString") EXCEPT !.is_null = TRUE]
makeArray(elems) == [RespValue("Array") EXCEPT !.array = elems]
makeNullArray == [RespValue("Array") EXCEPT !.is_null = TRUE]

\* the canonical encoding of a RespValue
RECURSIVE serializeResp(_)
RECURSIVE serializeAll(_)
serializeAll(vs) ==
    IF vs = <<>> THEN "" ELSE serializeResp(Head(vs)) \o serializeAll(Tail(vs))

serializeResp(v) ==
    CASE v.type = "SimpleString" -> "+" \o v.buf \o "\r\n"
      [] v.type = "Error" -> "-" \o v.buf \o "\r\n"
      [] v.type = "Integer" -> ":" \o to_string(v.integer) \o "\r\n"
      [] v.type = "BulkString" ->
            IF v.is_null THEN "$-1\r\n"
            ELSE "$" \o to_string(Len(v.buf)) \o "\r\n" \o v.buf \o "\r\n"
      [] v.type = "Array" ->
            IF v.is_null THEN "*-1\r\n"
            ELSE "*" \o to_string(Len(v.array)) \o "\r\n" \o serializeAll(v.array)

(***************************************************************************)
(* The incremental RESP parser (resp_parser.cpp).  Every function returns  *)
(* a record holding its bool result and the final values of its            *)
(* out-parameters, and the flag ub: the call overflowed a signed long      *)
(* long, which is undefined behaviour, so that the rest of the record      *)
(* tells nothing of what the build returns.                                *)
(***************************************************************************)

\* long long is 64 bits wide in the code; the model's integers are narrower
\* and the width is scaled down to LLongBits
LLongBits == 8
LLongMax == 2 ^ (LLongBits - 1) - 1
LLongMin == -LLongMax - 1

parseCRLF(s, pos) == pos + 1 < Len(s) /\ At(s, pos) = "\r" /\ At(s, pos + 1) = "\n"

\* s.find("\r\n", start): the first position >= start of a CRLF, or -1 (npos)
RECURSIVE FindCRLF(_, _)
FindCRLF(s, start) ==
    IF start + 1 >= Len(s) THEN -1
    ELSE IF At(s, start) = "\r" /\ At(s, start + 1) = "\n" THEN start
    ELSE FindCRLF(s, start + 1)

readLine(s, start) ==
    LET cr == FindCRLF(s, start)
    IN  IF cr = -1 THEN [ok |-> FALSE, next |-> start, line |-> ""]
        ELSE [ok |-> TRUE, next |-> cr + 2, line |-> Mid(s, start, cr - start)]

\* the digit loop of parseInteger: -1 when a byte is not a digit
RECURSIVE DigitsValue(_, _, _)
DigitsValue(line, idx, num) ==
    IF idx >= Len(line) THEN num
    ELSE IF At(line, idx) \notin Digits THEN -1
    ELSE DigitsValue(line, idx + 1, num * 10 + DigitVal(At(line, idx)))

\* the digit loop of parseInteger computes num * 10 + (c - '0') beyond the
\* largest long long before it meets a byte that is not a digit
RECURSIVE DigitsOverflow(_, _, _)
DigitsOverflow(line, idx, num) ==
    IF idx >= Len(line) THEN FALSE
    ELSE IF At(line, idx) \notin Digits THEN FALSE
    ELSE IF num * 10 + DigitVal(At(line, idx)) > LLongMax THEN TRUE
    ELSE DigitsOverflow(line, idx + 1, num * 10 + DigitVal(At(line, idx)))

\* parseInteger after its readLine returned rl
parseIntegerLine(rl) ==
    LET line == rl.line
        signed == At(line, 0) = "+" \/ At(line, 0) = "-"
        neg == At(line, 0) = "-"
        idx == IF signed THEN 1 ELSE 0
        fail == [ok |-> FALSE, next |-> rl.next, val |-> 0, ub |-> FALSE]
    IN  IF ~rl.ok THEN fail
        ELSE IF line = "" THEN fail
        ELSE IF idx >= Len(line) THEN fail
        ELSE IF DigitsOverflow(line, idx, 0)
            THEN [ok |-> TRUE, next |-> rl.next, val |-> 0, ub |-> TRUE]
        ELSE IF DigitsValue(line, idx, 0) = -1 THEN fail
        ELSE [ok |-> TRUE, next |-> rl.next,
              val |-> IF neg THEN -DigitsValue(line, idx, 0)
                      ELSE DigitsValue(line, idx, 0),
              ub |-> FALSE]

parseInteger(s, start) == parseIntegerLine(readLine(s, start))

\* parseBulkStringBody that asks for more data only while the payload is
\* short, not while its CRLF is
parseBulkStringBodyShort(s, pi, out) ==
    LET len == pi.val
        after_len == pi.next
        needed == len
        filled == [RespValue("BulkString") EXCEPT !.buf = Mid(s, after_len, needed)]
    IN  IF pi.ub THEN [ok |-> FALSE, next |-> 0, out |-> out, err |-> "", ub |-> TRUE]
        ELSE IF ~pi.ok
            THEN [ok |-> FALSE, next |-> 0, out |-> out, err |-> "", ub |-> FALSE]
        ELSE IF len < -1
            THEN [ok |-> FALSE, next |-> 0, out |-> out,
                  err |-> "Invalid bulk string length", ub |-> FALSE]
        ELSE IF len = -1
            THEN [ok |-> TRUE, next |-> after_len,
                  out |-> [RespValue("BulkString") EXCEPT !.is_null = TRUE],
                  err |-> "", ub |-> FALSE]
        ELSE IF after_len + needed > Len(s)
            THEN [ok |-> FALSE, next |-> 0, out |-> out, err |-> "", ub |-> FALSE]
        ELSE IF ~parseCRLF(s, after_len + needed)
            THEN [ok |-> FALSE, next |-> 0, out |-> filled,
                  err |-> "Bulk string missing CRLF", ub |-> FALSE]
        ELSE [ok |-> TRUE, next |-> after_len + needed + 2, out |-> filled,
              err |-> "", ub |-> FALSE]

\* parseBulkString after its parseInteger returned pi
parseBulkStringBody(s, pi, out) ==
    LET len == pi.val
        after_len == pi.next
        needed == len
        filled == [RespValue("BulkString") EXCEPT !.buf = Mid(s, after_len, needed)]
    IN  IF pi.ub THEN [ok |-> FALSE, next |-> 0, out |-> out, err |-> "", ub |-> TRUE]
        ELSE IF ~pi.ok
            THEN [ok |-> FALSE, next |-> 0, out |-> out, err |-> "", ub |-> FALSE]
        ELSE IF len < -1
            THEN [ok |-> FALSE, next |-> 0, out |-> out,
                  err |-> "Invalid bulk string length", ub |-> FALSE]
        ELSE IF len = -1
            THEN [ok |-> TRUE, next |-> after_len,
                  out |-> [RespValue("BulkString") EXCEPT !.is_null = TRUE],
                  err |-> "", ub |-> FALSE]
        ELSE IF after_len + needed + 2 > Len(s)
            THEN [ok |-> FALSE, next |-> 0, out |-> out, err |-> "", ub |-> FALSE]
        ELSE IF ~parseCRLF(s, after_len + needed)
            THEN [ok |-> FALSE, next |-> 0, out |-> filled,
                  err |-> "Bulk string missing CRLF", ub |-> FALSE]
        ELSE [ok |-> TRUE, next |-> after_len + needed + 2, out |-> filled,
              err |-> "", ub |-> FALSE]

parseBulkString(s, start, out) == parseBulkStringBody(s, parseInteger(s, start), out)

RECURSIVE tryParseRespMessage(_, _)
RECURSIVE parseArrayElems(_, _, _, _)
RECURSIVE parseArrayElem(_, _, _, _, _)

\* one pass of the element loop after tryParseRespMessage returned r for
\* the element at `cursor`
parseArrayElem(s, cursor, left, out, r) ==
    IF ~r.ok
    THEN [ok |-> FALSE, next |-> 0, out |-> out, err |-> r.err, ub |-> r.ub]
    ELSE IF r.ub
    THEN [ok |-> FALSE, next |-> 0, out |-> out, err |-> "", ub |-> TRUE]
    ELSE parseArrayElems(s, cursor + r.consumed, left - 1,
                         [out EXCEPT !.array = Append(@, r.out)])

\* the element loop of parseArray: `left` elements still to parse at `cursor`
parseArrayElems(s, cursor, left, out) ==
    IF left = 0
    THEN [ok |-> TRUE, next |-> cursor, out |-> out, err |-> "", ub |-> FALSE]
    ELSE IF cursor >= Len(s)
        THEN [ok |-> FALSE, next |-> 0, out |-> out, err |-> "", ub |-> FALSE]
    ELSE parseArrayElem(s, cursor, left, out,
                        tryParseRespMessage(From(s, cursor), RespValue("SimpleString")))

\* parseArray after its parseInteger returned pi
parseArrayBody(s, pi, out) ==
    LET count == pi.val
        after_count == pi.next
    IN  IF pi.ub THEN [ok |-> FALSE, next |-> 0, out |-> out, err |-> "", ub |-> TRUE]
        ELSE IF ~pi.ok
            THEN [ok |-> FALSE, next |-> 0, out |-> out, err |-> "", ub |-> FALSE]
        ELSE IF count < -1
            THEN [ok |-> FALSE, next |-> 0, out |-> out,
                  err |-> "Invalid array length", ub |-> FALSE]
        ELSE IF count = -1
            THEN [ok |-> TRUE, next |-> after_count,
                  out |-> [RespValue("Array") EXCEPT !.is_null = TRUE],
                  err |-> "", ub |-> FALSE]
        ELSE parseArrayElems(s, after_count, count, RespValue("Array"))

parseArray(s, start, out) == parseArrayBody(s, parseInteger(s, start), out)

\* the returns of tryParseRespMessage: false with nothing written ...
Incomplete(out) ==
    [ok |-> FALSE, consumed |-> 0, out |-> out, err |-> "", ub |-> FALSE]

\* ... a simple string or an error (type t) after readLine returned rl ...
parsedLine(t, rl, out) ==
    IF ~rl.ok THEN Incomplete(out)
    ELSE [ok |-> TRUE, consumed |-> rl.next,
          out |-> [RespValue(t) EXCEPT !.buf = rl.line], err |-> "", ub |-> FALSE]

\* ... an integer after parseInteger returned pi ...
parsedInteger(pi, out) ==
    IF ~pi.ok THEN Incomplete(out)
    ELSE [ok |-> TRUE, consumed |-> pi.next,
          out |-> [RespValue("Integer") EXCEPT !.integer = pi.val], err |-> "",
          ub |-> pi.ub]

\* ... a bulk string or an array after parseBulkString or parseArray
\* returned r
parsedNested(r) ==
    [ok |-> r.ok, consumed |-> IF r.ok THEN r.next ELSE 0, out |-> r.out,
     err |-> r.err, ub |-> r.ub]

\* `out` is the caller's RespValue before the call; the result holds the
\* bool returned and the values of consumed, out and error_message after it
tryParseRespMessage(data, out) ==
    LET prefix == At(data, 0)
    IN  IF data = "" THEN Incomplete(out)
        ELSE CASE prefix = "+" -> parsedLine("SimpleString", readLine(data, 1), out)
               [] prefix = "-" -> parsedLine("Error", readLine(data, 1), out)
               [] prefix = ":" -> parsedInteger(parseInteger(data, 1), out)
               [] prefix = "$" -> parsedNested(parseBulkString(data, 1, out))
               [] prefix = "*" -> parsedNested(parseArray(data, 1, out))
               [] OTHER ->
                    [ok |-> FALSE, consumed |-> 0, out |-> out,
                     err |-> "Unknown RESP type prefix", ub |-> FALSE]

\* out.array.reserve(count) throws std::length_error when count exceeds
\* the vector's max_size(), which is below the largest long long; the
\* model scales max_size() down with the width of long long
VectorMaxSize == 100

\* tryParseRespMessage(data) throws: the count of an array it reaches,
\* at the top or in an element parsed before any failure, exceeds
\* max_size().  A count whose digits overflow is covered by ub.
RECURSIVE reserveThrows(_)
RECURSIVE elemsThrow(_, _, _)

\* the element at `cursor` parsed to r without throwing
elemThrows(s, cursor, left, r) ==
    r.ok /\ ~r.ub /\ elemsThrow(s, cursor + r.consumed, left - 1)

elemsThrow(s, cursor, left) ==
    IF left = 0 \/ cursor >= Len(s) THEN FALSE
    ELSE \/ reserveThrows(From(s, cursor))
         \/ elemThrows(s, cursor, left,
                       tryParseRespMessage(From(s, cursor), RespValue("SimpleString")))

\* parseArray throws after its parseInteger returned pi
arrayThrows(s, pi) ==
    /\ pi.ok
    /\ ~pi.ub
    /\ pi.val >= 0
    /\ (pi.val > VectorMaxSize \/ elemsThrow(s, pi.next, pi.val))

reserveThrows(data) == At(data, 0) = "*" /\ arrayThrows(data, parseInteger(data, 1))

(***************************************************************************)
(* The keyspace engine and command dispatcher (dispatcher.cpp).            *)
(*                                                                         *)
(* The engine state is the record                                          *)
(*   [kv_cache, expires, mem_stats, aof_config, aof_file, aof_disk]        *)
(* of the file-scope statics; aof_file is the ofstream (is_open, failbit)  *)
(* and aof_disk the bytes of the file it appends to.  kv_cache and         *)
(* expires are functions whose domain is the set of keys present.          *)
(***************************************************************************)

\* sizeof(Value): std::string (32) + int64_t + uint32_t (padded) + int64_t
SizeofValue == 56

\* the fixed per-entry overhead of estimateMemoryUsage
EntryOverhead == 32

kDefaultMemoryLimit == 100 * 1024 * 1024

\* the value of the largest size_t in the model's integers
SizeMax == 2147483647

\* Value(v, exp_ms).  The member last_access_time is assigned by SET and GET
\* and read nowhere in the code; the model leaves it out of the record.
Value(v, exp_ms) == [val |-> v, ttl_ms |-> exp_ms, access_count |-> 0]

\* the statics after construction
InitEngine ==
    [kv_cache |-> <<>>,
     expires |-> <<>>,
     mem_stats |-> [estimated_memory |-> 0, memory_limit |-> kDefaultMemoryLimit,
                    evictions_total |-> 0],
     aof_config |-> [enabled |-> FALSE, filename |-> "redis.aof",
                     appendfsync_everysec |-> TRUE, last_fsync_time |-> 0],
     aof_file |-> [is_open |-> FALSE, fail |-> FALSE],
     aof_disk |-> ""]

\* m.erase(k) on an unordered_map
Erase(m, k) == [j \in DOMAIN m \ {k} |-> m[j]]

\* m[k] = v on an unordered_map
Put(m, k, v) == [j \in DOMAIN m \cup {k} |-> IF j = k THEN v ELSE m[j]]

makeCommandError(msg) == makeError("ERR " \o msg)

\* the term one entry adds in estimateMemoryUsage
Footprint(k, v) == Len(k) + Len(v.val) + SizeofValue + EntryOverhead

RECURSIVE SumFootprint(_, _)
SumFootprint(kv, keys) ==
    IF keys = {} THEN 0
    ELSE LET k == CHOOSE j \in keys : TRUE
         IN  Footprint(k, kv[k]) + SumFootprint(kv, keys \ {k})

estimateMemoryUsage(kv) == SumFootprint(kv, DOMAIN kv)

\* cleanupExpiredKeys at time now
cleanupExpiredKeys(st, now) ==
    LET dead == {k \in DOMAIN st.expires : now >= st.expires[k]}
    IN  [st EXCEPT !.kv_cache = [k \in DOMAIN st.kv_cache \ dead |-> st.kv_cache[k]],
                   !.expires = [k \in DOMAIN st.expires \ dead |-> st.expires[k]]]

\* LFUOrders with the comparator reversed: descending in access_count
LFUOrdersDescending(kv) ==
    LET n == Cardinality(DOMAIN kv)
    IN  {ord \in [1..n -> DOMAIN kv] :
            /\ \A i, j \in 1..n : i # j => ord[i] # ord[j]
            /\ \A i, j \in 1..n :
                  i < j => kv[ord[i]].access_count >= kv[ord[j]].access_count}

\* The orders std::sort can leave `items` in: every arrangement of the keys
\* of kv that is ascending in access_count (the sort is not stable and the
\* map's iteration order is unspecified, so ties come out in any order).
LFUOrders(kv) ==
    LET n == Cardinality(DOMAIN kv)
    IN  {ord \in [1..n -> DOMAIN kv] :
            /\ \A i, j \in 1..n : i # j => ord[i] # ord[j]
            /\ \A i, j \in 1..n :
                  i < j => kv[ord[i]].access_count <= kv[ord[j]].access_count}

\* evictLoop without the expires.erase(key)
RECURSIVE evictLoopKeepsExpiry(_, _, _, _)
evictLoopKeepsExpiry(st, items, target_memory, evicted) ==
    IF items = <<>> THEN [st |-> st, evicted |-> evicted]
    ELSE IF estimateMemoryUsage(st.kv_cache) <= target_memory
        THEN [st |-> st, evicted |-> evicted]
    ELSE LET key == Head(items)
         IN  evictLoopKeepsExpiry([st EXCEPT !.kv_cache = Erase(@, key),
                                             !.mem_stats.evictions_total = @ + 1],
                                  Tail(items), target_memory, Append(evicted, key))

\* the eviction loop of evictLFUKeys over the sorted items; `evicted` lists
\* the keys erased so far, in order
RECURSIVE evictLoop(_, _, _, _)
evictLoop(st, items, target_memory, evicted) ==
    IF items = <<>> THEN [st |-> st, evicted |-> evicted]
    ELSE IF estimateMemoryUsage(st.kv_cache) <= target_memory
        THEN [st |-> st, evicted |-> evicted]
    ELSE LET key == Head(items)
         IN  evictLoop([st EXCEPT !.kv_cache = Erase(@, key),
                                  !.expires = Erase(@, key),
                                  !.mem_stats.evictions_total = @ + 1],
                       Tail(items), target_memory, Append(evicted, key))

\* evictLFUKeys, `ord` being the order the sort produced
evictLFUKeys(st, target_memory, ord) == evictLoop(st, ord, target_memory, <<>>)

\* EvictionTarget with the factor 8 in place of 0.8
EvictionTargetTimesEight(limit) == limit * 8

\* size_t target = mem_stats.memory_limit * 0.8: the double product
\* truncated, which is the integer part of 4 * limit / 5 for the limits of
\* the specifications below
EvictionTarget(limit) == (limit * 4) \div 5

\* triggerEvictionIfNeeded that refreshes the estimate and never evicts
triggerEvictionNever(st, ord) ==
    [st |-> [st EXCEPT !.mem_stats.estimated_memory = estimateMemoryUsage(st.kv_cache)],
     evicted |-> <<>>]

triggerEvictionIfNeeded(st, ord) ==
    LET est == estimateMemoryUsage(st.kv_cache)
        st1 == [st EXCEPT !.mem_stats.estimated_memory = est]
    IN  IF est > st1.mem_stats.memory_limit
        THEN LET r == evictLFUKeys(st1, EvictionTarget(st1.mem_stats.memory_limit), ord)
             IN  [st |-> [r.st EXCEPT !.mem_stats.estimated_memory =
                                          estimateMemoryUsage(r.st.kv_cache)],
                  evicted |-> r.evicted]
        ELSE [st |-> st1, evicted |-> <<>>]

\* initAOF; openOk says whether the file can be opened
initAOF(st, openOk) ==
    IF ~st.aof_config.enabled THEN st
    ELSE IF st.aof_file.is_open
        \* open() on an open stream fails: failbit is set, the file stays open
        THEN [st EXCEPT !.aof_file.fail = TRUE]
    ELSE IF openOk
        THEN [st EXCEPT !.aof_file = [is_open |-> TRUE, fail |-> FALSE]]
    ELSE [st EXCEPT !.aof_file = [is_open |-> FALSE, fail |-> TRUE],
                    !.aof_config.enabled = FALSE]

appendToAOF(st, command, now) ==
    IF st.aof_config.enabled /\ st.aof_file.is_open
    THEN LET st1 == IF st.aof_file.fail THEN st
                    ELSE [st EXCEPT !.aof_disk = @ \o command]
         IN  IF st1.aof_config.appendfsync_everysec
                  /\ now - st1.aof_config.last_fsync_time >= 1000
             THEN [st1 EXCEPT !.aof_config.last_fsync_time = now]
             ELSE st1
    ELSE st

Spaces == {" ", "\t", "\n", "\r", "\f"}

RECURSIVE SkipSpaces(_, _)
SkipSpaces(s, i) == IF At(s, i) \in Spaces THEN SkipSpaces(s, i + 1) ELSE i

\* the number of leading digits of s from position i
RECURSIVE DigitRun(_, _)
DigitRun(s, i) == IF At(s, i) \in Digits THEN 1 + DigitRun(s, i + 1) ELSE 0

\* std::stoll: leading white space, an optional sign, then the longest run
\* of digits; ok is FALSE where stoll throws (no digits)
stoll(s) ==
    LET i == SkipSpaces(s, 0)
        signed == At(s, i) = "+" \/ At(s, i) = "-"
        j == IF signed THEN i + 1 ELSE i
        n == DigitRun(s, j)
        mag == DigitsValue(Mid(s, j, n), 0, 0)
    IN  IF n = 0 THEN [ok |-> FALSE, val |-> 0]
        ELSE [ok |-> TRUE, val |-> IF At(s, i) = "-" THEN -mag ELSE mag]

\* std::stoull: as stoll, a negated value wrapping around the largest size_t
stoull(s) ==
    LET r == stoll(s)
    IN  IF r.ok /\ r.val < 0 THEN [ok |-> TRUE, val |-> SizeMax + 1 + r.val] ELSE r

\* the EX/PX option loop of SET from args[i]; ttl_ms is the expiry so far
RECURSIVE parseSetOptions(_, _, _, _)
parseSetOptions(args, i, ttl_ms, now) ==
    IF i > Len(args) THEN [ok |-> TRUE, ttl_ms |-> ttl_ms, err |-> ""]
    ELSE IF i + 1 > Len(args) THEN [ok |-> FALSE, ttl_ms |-> ttl_ms, err |-> "syntax error"]
    ELSE LET option == toUpperASCII(args[i])
             ttl == stoll(args[i + 1])
         IN  IF ~ttl.ok
             THEN [ok |-> FALSE, ttl_ms |-> ttl_ms,
                   err |-> "value is not an integer or out of range"]
             ELSE IF ttl.val <= 0
                 THEN [ok |-> FALSE, ttl_ms |-> ttl_ms, err |-> "invalid expire time"]
             ELSE IF option = "EX"
                 THEN parseSetOptions(args, i + 2, now + ttl.val * 1000, now)
             ELSE IF option = "PX"
                 THEN parseSetOptions(args, i + 2, now + ttl.val, now)
             ELSE [ok |-> FALSE, ttl_ms |-> ttl_ms, err |-> "unknown option for SET"]

\* the bulk-string payloads of a command array: args
RECURSIVE CommandArgs(_)
CommandArgs(elems) ==
    IF elems = <<>> THEN <<>> ELSE <<Head(elems).buf>> \o CommandArgs(Tail(elems))

\* a result of dispatchCommand that leaves the engine as it was
Reply(st, resp) == [resp |-> resp, st |-> st, evicted |-> <<>>]

\* dispatchSetStore with the eviction check after the insert
dispatchSetStoreEvictLast(cmd, args, ttl_ms, st, env) ==
    LET key == args[2]
        new_value == [Value(args[3], ttl_ms) EXCEPT !.access_count = 1]
        st1 == [st EXCEPT !.kv_cache = Put(@, key, new_value)]
        st2 == IF ttl_ms # -1
               THEN [st1 EXCEPT !.expires = Put(@, key, ttl_ms)]
               ELSE [st1 EXCEPT !.expires = Erase(@, key)]
        ord == CHOOSE o \in LFUOrders(st2.kv_cache) : TRUE
        ev == triggerEvictionIfNeeded(st2, ord)
    IN  [resp |-> makeSimpleString("OK"),
         st |-> appendToAOF(ev.st, serializeResp(cmd), env.now),
         evicted |-> ev.evicted]

\* SET, after the options parsed to ttl_ms
dispatchSetStore(cmd, args, ttl_ms, st, env) ==
    LET key == args[2]
        ev == triggerEvictionIfNeeded(st, env.ord)
        new_value == [Value(args[3], ttl_ms) EXCEPT !.access_count = 1]
        st1 == [ev.st EXCEPT !.kv_cache = Put(@, key, new_value)]
        st2 == IF ttl_ms # -1
               THEN [st1 EXCEPT !.expires = Put(@, key, ttl_ms)]
               ELSE [st1 EXCEPT !.expires = Erase(@, key)]
    IN  [resp |-> makeSimpleString("OK"),
         st |-> appendToAOF(st2, serializeResp(cmd), env.now),
         evicted |-> ev.evicted]

\* dispatchSet that checks the memory limit before it validates the command
dispatchSetEvictsFirst(cmd, args, st, env) ==
    LET ev == triggerEvictionIfNeeded(st, env.ord)
    IN  IF Len(args) < 3
        THEN [resp |-> makeCommandError("wrong number of arguments for 'SET'"),
              st |-> ev.st, evicted |-> ev.evicted]
        ELSE LET opt == parseSetOptions(args, 4, -1, env.now)
             IN  IF ~opt.ok
                 THEN [resp |-> makeCommandError(opt.err), st |-> ev.st,
                       evicted |-> ev.evicted]
                 ELSE dispatchSetStore(cmd, args, opt.ttl_ms, ev.st, env)

dispatchSet(cmd, args, st, env) ==
    IF Len(args) < 3
    THEN Reply(st, makeCommandError("wrong number of arguments for 'SET'"))
    ELSE LET opt == parseSetOptions(args, 4, -1, env.now)
         IN  IF ~opt.ok THEN Reply(st, makeCommandError(opt.err))
             ELSE dispatchSetStore(cmd, args, opt.ttl_ms, st, env)

\* dispatchGet that expires a key only after its expiry instant (> for >=)
dispatchGetLateExpiry(args, st, env) ==
    LET key == args[2]
    IN  IF Len(args) # 2
        THEN Reply(st, makeCommandError("wrong number of arguments for 'GET'"))
        ELSE IF key \notin DOMAIN st.kv_cache THEN Reply(st, makeNullBulkString)
        ELSE IF key \in DOMAIN st.expires /\ env.now > st.expires[key]
            THEN Reply([st EXCEPT !.kv_cache = Erase(@, key),
                                  !.expires = Erase(@, key)],
                       makeNullBulkString)
        ELSE Reply([st EXCEPT !.kv_cache[key].access_count = @ + 1],
                   makeBulkString(st.kv_cache[key].val))

dispatchGet(args, st, env) ==
    LET key == args[2]
    IN  IF Len(args) # 2
        THEN Reply(st, makeCommandError("wrong number of arguments for 'GET'"))
        ELSE IF key \notin DOMAIN st.kv_cache THEN Reply(st, makeNullBulkString)
        ELSE IF key \in DOMAIN st.expires /\ env.now >= st.expires[key]
            THEN Reply([st EXCEPT !.kv_cache = Erase(@, key),
                                  !.expires = Erase(@, key)],
                       makeNullBulkString)
        ELSE Reply([st EXCEPT !.kv_cache[key].access_count = @ + 1],
                   makeBulkString(st.kv_cache[key].val))

\* delLoop that counts every key it erases, expired or not
RECURSIVE delLoopCountsExpired(_, _, _, _, _)
delLoopCountsExpired(args, i, st, removed, now) ==
    IF i > Len(args) THEN [st |-> st, removed |-> removed]
    ELSE LET key == args[i]
         IN  IF key \in DOMAIN st.kv_cache
             THEN delLoopCountsExpired(args, i + 1,
                                       [st EXCEPT !.kv_cache = Erase(@, key),
                                                  !.expires = Erase(@, key)],
                                       removed + 1, now)
             ELSE delLoopCountsExpired(args, i + 1, st, removed, now)

\* the key loop of DEL from args[i]
RECURSIVE delLoop(_, _, _, _, _)
delLoop(args, i, st, removed, now) ==
    IF i > Len(args) THEN [st |-> st, removed |-> removed]
    ELSE LET key == args[i]
         IN  IF key \in DOMAIN st.kv_cache
             THEN LET expired == key \in DOMAIN st.expires /\ now >= st.expires[key]
                  IN  delLoop(args, i + 1,
                              [st EXCEPT !.kv_cache = Erase(@, key),
                                         !.expires = Erase(@, key)],
                              IF expired THEN removed ELSE removed + 1, now)
             ELSE delLoop(args, i + 1, st, removed, now)

\* dispatchDel that appends the frame to the AOF before it checks the
\* number of arguments
dispatchDelLogsFirst(cmd, args, st, env) ==
    IF Len(args) < 2
    THEN Reply(appendToAOF(st, serializeResp(cmd), env.now),
               makeCommandError("wrong number of arguments for 'DEL'"))
    ELSE LET r == delLoop(args, 2, st, 0, env.now)
         IN  [resp |-> makeInteger(r.removed),
              st |-> appendToAOF(r.st, serializeResp(cmd), env.now),
              evicted |-> <<>>]

dispatchDel(cmd, args, st, env) ==
    IF Len(args) < 2
    THEN Reply(st, makeCommandError("wrong number of arguments for 'DEL'"))
    ELSE LET r == delLoop(args, 2, st, 0, env.now)
         IN  [resp |-> makeInteger(r.removed),
              st |-> appendToAOF(r.st, serializeResp(cmd), env.now),
              evicted |-> <<>>]

dispatchConfig(args, st) ==
    IF Len(args) < 2
    THEN Reply(st, makeCommandError("wrong number of arguments for 'CONFIG'"))
    ELSE LET subcmd == toUpperASCII(args[2])
             param == toUpperASCII(args[3])
         IN  IF subcmd = "SET"
             THEN IF Len(args) # 4
                  THEN Reply(st, makeCommandError("wrong number of arguments for 'CONFIG SET'"))
                  ELSE IF param = "MAXMEMORY"
                      THEN LET limit == stoull(args[4])
                           IN  IF limit.ok
                               THEN Reply([st EXCEPT !.mem_stats.memory_limit = limit.val],
                                          makeSimpleString("OK"))
                               ELSE Reply(st, makeCommandError("invalid memory limit value"))
                  ELSE IF param = "APPENDFSYNC"
                      THEN IF args[4] = "everysec"
                           THEN Reply([st EXCEPT !.aof_config.appendfsync_everysec = TRUE],
                                      makeSimpleString("OK"))
                           ELSE IF args[4] = "no"
                           THEN Reply([st EXCEPT !.aof_config.appendfsync_everysec = FALSE],
                                      makeSimpleString("OK"))
                           ELSE Reply(st, makeCommandError("invalid appendfsync value"))
                  ELSE Reply(st, makeCommandError("unknown configuration parameter"))
             ELSE IF subcmd = "GET"
             THEN IF Len(args) # 3
                  THEN Reply(st, makeCommandError("wrong number of arguments for 'CONFIG GET'"))
                  ELSE IF param = "MAXMEMORY"
                      THEN Reply(st, makeArray(<<makeBulkString("maxmemory"),
                                   makeBulkString(to_string(st.mem_stats.memory_limit))>>))
                  ELSE IF param = "APPENDFSYNC"
                      THEN Reply(st, makeArray(<<makeBulkString("appendfsync"),
                                   makeBulkString(IF st.aof_config.appendfsync_everysec
                                                  THEN "everysec" ELSE "no")>>))
                  ELSE Reply(st, makeCommandError("unknown configuration parameter"))
             ELSE Reply(st, makeCommandError("unknown CONFIG subcommand"))

dispatchAof(args, st, env) ==
    IF Len(args) # 2
    THEN Reply(st, makeCommandError("wrong number of arguments for 'AOF'"))
    ELSE LET subcmd == toUpperASCII(args[2])
         IN  IF subcmd = "ENABLE"
             THEN Reply(initAOF([st EXCEPT !.aof_config.enabled = TRUE], env.openOk),
                        makeSimpleString("OK"))
             ELSE IF subcmd = "DISABLE"
             THEN Reply([st EXCEPT !.aof_config.enabled = FALSE,
                                   !.aof_file.is_open = FALSE],
                        makeSimpleString("OK"))
             ELSE Reply(st, makeCommandError("unknown AOF subcommand"))

infoText(st) ==
    "used_memory:" \o to_string(st.mem_stats.estimated_memory) \o "\r\n"
    \o "maxmemory:" \o to_string(st.mem_stats.memory_limit) \o "\r\n"
    \o "evicted_keys:" \o to_string(st.mem_stats.evictions_total) \o "\r\n"
    \o "aof_enabled:" \o (IF st.aof_config.enabled THEN "1" ELSE "0") \o "\r\n"

\* dispatchCommand on the engine state st.  env holds what the call reads
\* from its environment: now (getCurrentTimeMs), ord (the order the eviction
\* sort produces) and openOk (whether the AOF file can be opened).  The
\* result holds the response, the engine state after the call and the keys
\* evicted by it, in order.
dispatchCommand(cmd, st, env) ==
    IF cmd.type # "Array" \/ cmd.is_null
    THEN Reply(st, makeCommandError("protocol error: expected array"))
    ELSE IF cmd.array = <<>> THEN Reply(st, makeCommandError("missing command"))
    ELSE IF \E i \in 1..Len(cmd.array) :
                cmd.array[i].type # "BulkString" \/ cmd.array[i].is_null
        THEN Reply(st, makeCommandError("arguments must be bulk strings"))
    ELSE LET args == CommandArgs(cmd.array)
             op == toUpperASCII(args[1])
         IN  CASE op = "PING" ->
                    IF Len(args) = 1 THEN Reply(st, makeSimpleString("PONG"))
                    ELSE IF Len(args) = 2 THEN Reply(st, makeBulkString(args[2]))
                    ELSE Reply(st, makeCommandError("wrong number of arguments for 'PING'"))
               [] op = "ECHO" ->
                    IF Len(args) # 2
                    THEN Reply(st, makeCommandError("wrong number of arguments for 'ECHO'"))
                    ELSE Reply(st, makeBulkString(args[2]))
               [] op = "SET" -> dispatchSet(cmd, args, st, env)
               [] op = "GET" -> dispatchGet(args, st, env)
               [] op = "DEL" -> dispatchDel(cmd, args, st, env)
               [] op = "CONFIG" -> dispatchConfig(args, st)
               [] op = "AOF" -> dispatchAof(args, st, env)
               [] op = "INFO" /\ Len(args) = 1 -> Reply(st, makeBulkString(infoText(st)))
               [] OTHER -> Reply(st, makeError("ERR unknown command '" \o args[1] \o "'"))

\* getline(aof_read, line) at offset pos of the file: the offset of the
\* next "\n", or the end of the file
RECURSIVE LineEnd(_, _)
LineEnd(file, pos) ==
    IF pos >= Len(file) \/ At(file, pos) = "\n" THEN pos
    ELSE LineEnd(file, pos + 1)

\* replayAOF.  A run holds the engine state, the clock, the commands
\* dispatched so far, whether tryParseRespMessage returned false with an
\* error message, and what replayAOF printed last.
RECURSIVE replayBuffer(_, _, _)
RECURSIVE replayLines(_, _, _, _)

\* dispatchCommand returned d for cmd, with aof_config.enabled set to false
\* for the call and restored after it
replayDispatched(run, cmd, d) ==
    [run EXCEPT !.st = [d.st EXCEPT !.aof_config.enabled = run.st.aof_config.enabled],
                !.dispatched = Append(@, cmd)]

\* tryParseRespMessage returned r on buffer.substr(consumed)
replayParsed(buffer, consumed, run, r) ==
    IF r.ok
    THEN replayBuffer(buffer, consumed + r.consumed,
             replayDispatched(run, r.out,
                 dispatchCommand(r.out, [run.st EXCEPT !.aof_config.enabled = FALSE],
                     [now |-> run.now, openOk |-> TRUE,
                      ord |-> CHOOSE o \in LFUOrders(run.st.kv_cache) : TRUE])))
    ELSE [consumed |-> consumed,
          run |-> [run EXCEPT !.rejected = @ \/ r.err # ""]]

\* the inner loop: while (consumed < buffer.size())
replayBuffer(buffer, consumed, run) ==
    IF consumed >= Len(buffer) THEN [consumed |-> consumed, run |-> run]
    ELSE replayParsed(buffer, consumed, run,
             tryParseRespMessage(From(buffer, consumed), RespValue("SimpleString")))

\* the inner loop left b: buffer.erase(0, consumed) and the next getline
replayErased(file, next, buffer, b) ==
    replayLines(file, next, From(buffer, b.consumed), b.run)

\* replayRead that leaves out the line feed getline removed: buffer += line
replayReadDropsLineFeed(file, pos, end, buffer, run) ==
    replayErased(file, IF end < Len(file) THEN end + 1 ELSE end,
                 buffer \o Mid(file, pos, end - pos),
                 replayBuffer(buffer \o Mid(file, pos, end - pos), 0, run))

\* getline read the line that ends at offset `end`: buffer += line + "\n"
replayRead(file, pos, end, buffer, run) ==
    replayErased(file, IF end < Len(file) THEN end + 1 ELSE end,
                 buffer \o Mid(file, pos, end - pos) \o "\n",
                 replayBuffer(buffer \o Mid(file, pos, end - pos) \o "\n", 0, run))

\* the outer loop: while (getline(aof_read, line))
replayLines(file, pos, buffer, run) ==
    IF pos >= Len(file) THEN [run EXCEPT !.reported = "AOF replay completed"]
    ELSE replayRead(file, pos, LineEnd(file, pos), buffer, run)

\* replayAOF on the engine state st at time t.  The file exists whenever
\* AOF is enabled: AOF ENABLE opened it with ios::app.
replayAOF(st, t) ==
    IF ~st.aof_config.enabled
    THEN [st |-> st, now |-> t, dispatched |-> <<>>, rejected |-> FALSE,
          reported |-> "none"]
    ELSE replayLines(st.aof_disk, 0, "",
             [st |-> st, now |-> t, dispatched |-> <<>>, rejected |-> FALSE,
              reported |-> "Replaying AOF file..."])

(***************************************************************************)
(* The poll() event loop (main.cpp): its constants, the Connection         *)
(* helpers, the pollset operations and the parse-and-dispatch loop.        *)
(*                                                                         *)
(* pfds is a sequence of pollfd records [fd, events, revents]; the C++     *)
(* index k is position k + 1, so the listening socket is pfds[1] and the   *)
(* clients are pfds[2..].  events and revents are sets of flag names.      *)
(* conns maps a descriptor to its Connection [inbuf, outbuf, closed].      *)
(***************************************************************************)

\* The byte sizes of main.cpp are scaled down so that TLC reaches the
\* states they guard with a few short frames:
\*   kReadChunk 4096 -> 16, kMaxOutbufSize 2 MiB -> 14,
\*   kWriteBudgetPerLoop 64 KiB -> 8.
kReadChunk == 16
kMaxOutbufSize == 14
kWriteBudgetPerLoop == 8

\* chrono::seconds(5), in milliseconds
cleanupInterval == 5000

kDefaultPort == 6380

\* the port main listens on, argv being the arguments after the program
\* name (argc is their number plus one)
selectPort(argv) ==
    IF Len(argv) + 1 > 2 THEN stoll(argv[1]).val ELSE kDefaultPort

\* the descriptor of the listening socket
lfd == 3

ErrorEvents == {"POLLERR", "POLLHUP", "POLLNVAL"}

Min(a, b) == IF a < b THEN a ELSE b

Max(a, b) == IF a > b THEN a ELSE b

\* Connection{}
Connection == [inbuf |-> "", outbuf |-> "", closed |-> FALSE]

isOutbufFull(conn) == Len(conn.outbuf) >= kMaxOutbufSize

\* appendToOutbuf that puts the data in front of the pending bytes
appendToOutbufFront(conn, data) == [conn EXCEPT !.outbuf = data \o @]

appendToOutbuf(conn, data) == [conn EXCEPT !.outbuf = @ \o data]

removeFromOutbuf(conn, bytes) == [conn EXCEPT !.outbuf = From(@, bytes)]

\* the pollfd {fd, events, revents}
pollfd(fd, events, revents) == [fd |-> fd, events |-> events, revents |-> revents]

\* addClient: conns.emplace leaves an existing entry alone
addClient(client_fd, ps, cs) ==
    [pfds |-> Append(ps, pollfd(client_fd, {"POLLIN"}, {})),
     conns |-> IF client_fd \in DOMAIN cs THEN cs ELSE Put(cs, client_fd, Connection)]

\* removeClient that moves the first client's pollfd into the freed
\* position and the last pollfd into the first client's
removeClientSwapFront(index, ps, cs) ==
    [pfds |-> SubSeq([[ps EXCEPT ![index] = ps[2]] EXCEPT ![2] = ps[Len(ps)]],
                     1, Len(ps) - 1),
     conns |-> Erase(cs, ps[index].fd)]

\* removeClient that leaves the connection in the table
removeClientKeepsEntry(index, ps, cs) ==
    [pfds |-> SubSeq([ps EXCEPT ![index] = ps[Len(ps)]], 1, Len(ps) - 1),
     conns |-> cs]

\* removeClient(index): erase the connection, close the descriptor, and
\* swap-remove the pollfd
removeClient(index, ps, cs) ==
    [pfds |-> SubSeq([ps EXCEPT ![index] = ps[Len(ps)]], 1, Len(ps) - 1),
     conns |-> Erase(cs, ps[index].fd)]

\* the interest update at the top of the loop
updateInterest(ps, cs) ==
    [k \in 1..Len(ps) |->
        IF k >= 2 /\ ps[k].fd \in DOMAIN cs
        THEN IF cs[ps[k].fd].outbuf # ""
             THEN [ps[k] EXCEPT !.events =
                      IF ~isOutbufFull(cs[ps[k].fd]) THEN {"POLLOUT", "POLLIN"}
                      ELSE {"POLLOUT"}]
             ELSE [ps[k] EXCEPT !.events = {"POLLIN"}]
        ELSE ps[k]]

\* maxWrite that ignores the write budget
maxWriteUnbudgeted(len, budget) == len

\* size_t maxWrite = min(len, remainingWriteBudget)
maxWrite(len, budget) == Min(len, budget)

\* The parse loop run after a read appended to conn.inbuf: parse, erase and
\* dispatch until the parser wants more data or rejects the buffer.  trace
\* lists what each pass did: the bytes it erased, the request parsed or the
\* parser's error, the reply appended, and the size of outbuf before it.
\* Where a SET evicts, the sort's order among equal access counts is fixed.
RECURSIVE parseLoop(_, _, _, _)
RECURSIVE parseLoopParsed(_, _, _, _, _)
RECURSIVE parseLoopDispatched(_, _, _, _, _)

\* parseLoopParsed that erases `consumed` bytes on a protocol error, without
\* the max with 1
parseLoopParsedNoErase(conn, st, env, trace, r) ==
    IF ~r.ok
    THEN IF r.err # ""
         THEN [conn |-> [appendToOutbuf(conn, serializeResp(makeError(r.err)))
                            EXCEPT !.inbuf = From(@, r.consumed)],
               st |-> st,
               trace |-> Append(trace,
                            [consumed |-> r.consumed, err |-> r.err,
                             req |-> makeNullArray, resp |-> makeError(r.err),
                             outbuf_before |-> Len(conn.outbuf)]),
               thrown |-> FALSE]
         ELSE [conn |-> conn, st |-> st, trace |-> trace, thrown |-> FALSE]
    ELSE parseLoopDispatched(conn, env, trace, r,
             dispatchCommand(r.out, st,
                 [now |-> env.now, openOk |-> env.openOk,
                  ord |-> CHOOSE o \in LFUOrders(st.kv_cache) : TRUE]))

\* the pass after dispatchCommand returned d for the request of r
parseLoopDispatched(conn, env, trace, r, d) ==
    parseLoop([appendToOutbuf(conn, serializeResp(d.resp))
                  EXCEPT !.inbuf = From(@, r.consumed)],
              d.st, env,
              Append(trace,
                  [consumed |-> r.consumed, err |-> "", req |-> r.out,
                   resp |-> d.resp, outbuf_before |-> Len(conn.outbuf)]))

\* the pass after tryParseRespMessage returned r
parseLoopParsed(conn, st, env, trace, r) ==
    IF ~r.ok
    THEN IF r.err # ""
         THEN [conn |-> [appendToOutbuf(conn, serializeResp(makeError(r.err)))
                            EXCEPT !.inbuf = From(@, Max(1, r.consumed))],
               st |-> st,
               trace |-> Append(trace,
                            [consumed |-> Max(1, r.consumed), err |-> r.err,
                             req |-> makeNullArray, resp |-> makeError(r.err),
                             outbuf_before |-> Len(conn.outbuf)]),
               thrown |-> FALSE]
         ELSE [conn |-> conn, st |-> st, trace |-> trace, thrown |-> FALSE]
    ELSE parseLoopDispatched(conn, env, trace, r,
             dispatchCommand(r.out, st,
                 [now |-> env.now, openOk |-> env.openOk,
                  ord |-> CHOOSE o \in LFUOrders(st.kv_cache) : TRUE]))

\* thrown: tryParseRespMessage threw, and nothing in main catches it
parseLoop(conn, st, env, trace) ==
    IF reserveThrows(conn.inbuf)
    THEN [conn |-> conn, st |-> st, trace |-> trace, thrown |-> TRUE]
    ELSE parseLoopParsed(conn, st, env, trace,
                         tryParseRespMessage(conn.inbuf, RespValue("SimpleString")))

\* What poll() reports for a client's pollfd p whose socket has the kernel
\* state k: the requested events that are ready, and the error flags of a
\* connection that was reset.
Readiness(p, k) ==
    (IF "POLLIN" \in p.events /\ (k.rx # "" \/ k.fin \/ k.reset) THEN {"POLLIN"} ELSE {})
    \cup (IF "POLLOUT" \in p.events /\ ~k.reset THEN {"POLLOUT"} ELSE {})
    \cup (IF k.reset THEN {"POLLERR", "POLLHUP"} ELSE {})

\* the lowest descriptor from f up that the process does not hold
RECURSIVE lowestFree(_, _)
lowestFree(cs, f) == IF f \notin DOMAIN cs THEN f ELSE lowestFree(cs, f + 1)

\* The accept-drain loop over the pending connections in queue: accept()
\* returns the lowest free descriptor, addClient registers it, until accept
\* reports EAGAIN.  fds lists the descriptors handed out, in queue order.
RECURSIVE acceptAll(_, _, _, _)
acceptAll(queue, ps, cs, fds) ==
    IF queue = <<>> THEN [pfds |-> ps, conns |-> cs, fds |-> fds]
    ELSE LET cfd == lowestFree(cs, lfd + 1)
             added == addClient(cfd, ps, cs)
         IN  acceptAll(Tail(queue), added.pfds, added.conns, Append(fds, cfd))

(***************************************************************************)
(* State.                                                                  *)
(***************************************************************************)

VARIABLES
    engine,   \* the dispatcher's statics: kv_cache, expires, mem_stats, aof_*
    now,      \* the clock read by getCurrentTimeMs, in milliseconds
    last,     \* the step just taken: the command dispatched, its response
              \* and the keys its eviction removed (NoStep for any other step)
    shadow,   \* history: per key, the value and expiry written by the last
              \* successful SET that no DEL or eviction has removed since
    pfds,     \* main's pollset
    conns,    \* main's connection table
    pc,       \* where main is: "top" of the loop, the "accept" drain, the
              \* head of the "clients" pass, its "read" drain, its "write"
              \* section, "exit" after poll failed, or "abort" after the
              \* process was terminated
    fdIndex,  \* the position in pfds the clients pass is at
    remainingWriteBudget,
    lastCleanup,
    peers,    \* per client, its end of the connection and the kernel's
              \* socket: phase, descriptor at the server, bytes sent and not
              \* yet read (rx), bytes of the script sent (pos), has it
              \* closed (fin), has it reset the connection (reset)
    backlog,  \* the clients whose connection waits in the listen queue
    log,      \* history: per client, what each pass of the parse loop did
    written,  \* history: per client, the bytes written to its socket
    wroteThisLoop,  \* history: bytes written since the top of the loop
    sys,      \* history: the read or write call the step just taken made
    codec,    \* a caller of the frame codec: the value it serialised, the
              \* bytes of it fed to the parser so far (fed) and still to
              \* come (rest), its variables consumed and out, their values
              \* before the last call, and what the call returned
    round,    \* history: the descriptors poll reported ready for the clients
              \* pass under way (ready) and those the pass has handled or
              \* removed so far, in order (seen)
    boot      \* the command-line arguments of the process (argv, without the
              \* program name) and the port it listens on;
              \* history: the starts of the process so far and, for the
              \* last start or call of replayAOF, the AOF file found, the
              \* commands dispatched from it, whether the parser rejected a
              \* frame and what was reported

loopVars ==
    <<pfds, conns, pc, fdIndex, remainingWriteBudget, lastCleanup, peers,
      backlog, log, written, wroteThisLoop, sys>>

vars ==
    <<engine, now, last, shadow, pfds, conns, pc, fdIndex,
      remainingWriteBudget, lastCleanup, peers, backlog, log, written,
      wroteThisLoop, sys, codec, boot, round>>

(***************************************************************************)
(* Bounds and inputs of the keyspace specifications.                       *)
(***************************************************************************)

MaxTime == 1000
MaxAccess == 2
MaxEvictions == 2

AllKeys == {"a", "b", "c"}
TwoKeys == {"a", "b"}
Vals == {"1", "22"}
TtlOptions == {<<"EX", "1">>, <<"px", "500">>}
TickSteps == {500}

\* the clients of the event-loop specifications
Clients == {1, 2, 3, 4, 5, 6}

NoStep == [cmd |-> makeNullArray, resp |-> makeNullArray, evicted |-> <<>>]
NoSet == [set |-> FALSE, val |-> "", ttl_ms |-> -1]

\* no call made, and a client that has not connected
NoCall == [op |-> "none", fd |-> 0, n |-> 0, outbuf_before |-> 0, dispatched_at |-> <<>>]
NoPeer == [phase |-> "idle", fd |-> 0, rx |-> "", pos |-> 0, fin |-> FALSE, reset |-> FALSE]

\* no clients pass has started
NoPass == [ready |-> {}, seen |-> <<>>]

\* the first start of the process: no command-line argument, no AOF file
\* on disk
NoBoot ==
    [starts |-> 0, file |-> "", replayed |-> <<>>, rejected |-> FALSE,
     reported |-> "none", argv |-> <<>>, port |-> kDefaultPort]

\* a caller of the codec that has serialised nothing yet
NoParse ==
    [v |-> makeNullArray, fed |-> "", rest |-> "", consumed |-> 0,
     out |-> RespValue("SimpleString"),
     before |-> [consumed |-> 0, out |-> RespValue("SimpleString")],
     ret |-> "none", err |-> ""]

\* the command frame a client sends for the argument list args
Cmd(args) == makeArray([i \in 1..Len(args) |-> makeBulkString(args[i])])

\* the argument list of a well-formed command frame
ArgsOf(cmd) == CommandArgs(cmd.array)

IsOK(resp) == resp = makeSimpleString("OK")

\* the orders the sort of evictLFUKeys can produce when dispatchCommand runs
\* it on st (it runs only when the estimate exceeds the limit)
SortChoices(st) ==
    IF estimateMemoryUsage(st.kv_cache) > st.mem_stats.memory_limit
    THEN LFUOrders(st.kv_cache)
    ELSE {<<>>}

\* the expiry instant SET's options ask for at time t: EX s gives
\* t + s * 1000, PX ms gives t + ms, no option gives no expiry (-1)
RequestedExpiry(args, t) ==
    IF Len(args) < 5 THEN -1
    ELSE IF toUpperASCII(args[4]) = "EX" THEN t + stoll(args[5]).val * 1000
    ELSE t + stoll(args[5]).val

RECURSIVE Forget(_, _)
Forget(sh, keys) ==
    IF keys = <<>> THEN sh
    ELSE Forget([sh EXCEPT ![Head(keys)] = NoSet], Tail(keys))

\* the history kept in shadow after cmd ran at time t with result r
Track(sh, cmd, r, t) ==
    LET args == ArgsOf(cmd)
        op == toUpperASCII(args[1])
        kept == Forget(sh, r.evicted)
    IN  IF op = "SET" /\ IsOK(r.resp)
        THEN [kept EXCEPT ![args[2]] =
                 [set |-> TRUE, val |-> args[3], ttl_ms |-> RequestedExpiry(args, t)]]
        ELSE IF op = "DEL" /\ r.resp.type = "Integer"
        THEN Forget(kept, Tail(args))
        ELSE kept

(***************************************************************************)
(* The keyspace specifications: commands dispatched one after another,     *)
(* the clock advancing and the periodic sweep running between them.  An    *)
(* action takes the keys (or limits) its commands range over, and whether  *)
(* the step is recorded in the history variables last and shadow.          *)
(***************************************************************************)

Init ==
    /\ engine = InitEngine
    /\ now = 0
    /\ last = NoStep
    /\ shadow = [k \in AllKeys |-> NoSet]
    /\ pfds = <<pollfd(lfd, {"POLLIN"}, {})>>
    /\ conns = <<>>
    /\ pc = "top"
    /\ fdIndex = 0
    /\ remainingWriteBudget = kWriteBudgetPerLoop
    /\ lastCleanup = 0
    /\ peers = [c \in Clients |-> NoPeer]
    /\ backlog = <<>>
    /\ log = [c \in Clients |-> <<>>]
    /\ written = [c \in Clients |-> ""]
    /\ wroteThisLoop = 0
    /\ sys = NoCall
    /\ codec = NoParse
    /\ boot = NoBoot
    /\ round = NoPass

\* dispatchCommand(cmd) called by the server
Exec(cmd, recorded) ==
    \E ord \in SortChoices(engine) :
        LET r == dispatchCommand(cmd, engine, [now |-> now, ord |-> ord, openOk |-> TRUE])
        IN  /\ engine' = r.st
            /\ last' = IF recorded
                       THEN [cmd |-> cmd, resp |-> r.resp, evicted |-> r.evicted]
                       ELSE NoStep
            /\ shadow' = IF recorded THEN Track(shadow, cmd, r, now) ELSE shadow
            /\ now' = now
            /\ UNCHANGED <<loopVars, codec, boot, round>>

\* evictions_total stays within MaxEvictions: a SET that would evict is
\* taken only below the bound
EvictionsBounded ==
    \/ engine.mem_stats.evictions_total < MaxEvictions
    \/ estimateMemoryUsage(engine.kv_cache) <= engine.mem_stats.memory_limit

SetPlain(keys, vals, recorded) ==
    /\ EvictionsBounded
    /\ \E k \in keys, v \in vals : Exec(Cmd(<<"SET", k, v>>), recorded)

SetExpiring(keys, vals, recorded) ==
    /\ EvictionsBounded
    /\ \E k \in keys, v \in vals, o \in TtlOptions :
          Exec(Cmd(<<"SET", k, v, o[1], o[2]>>), recorded)

Get(keys, recorded) ==
    \E k \in keys :
        /\ k \in DOMAIN engine.kv_cache => engine.kv_cache[k].access_count < MaxAccess
        /\ Exec(Cmd(<<"GET", k>>), recorded)

Del(keys, recorded) ==
    \E args \in {<<"DEL", k>> : k \in keys}
                \cup {<<"DEL", k1, k2>> : k1 \in keys, k2 \in keys} :
        Exec(Cmd(args), recorded)

ConfigSetMaxmemory(limits, recorded) ==
    \E n \in limits : Exec(Cmd(<<"CONFIG", "SET", "maxmemory", n>>), recorded)

\* time passes
Tick ==
    \E d \in TickSteps :
        /\ now + d <= MaxTime
        /\ now' = now + d
        /\ last' = NoStep
        /\ UNCHANGED <<engine, shadow>>
        /\ UNCHANGED <<loopVars, codec, boot, round>>

\* the periodic cleanupExpiredKeys of the event loop
Sweep ==
    /\ engine' = cleanupExpiredKeys(engine, now)
    /\ last' = NoStep
    /\ UNCHANGED <<now, shadow>>
    /\ UNCHANGED <<loopVars, codec, boot, round>>

\* every keyspace operation, on two keys, without history
NextKeyspace ==
    \/ SetPlain(TwoKeys, {"1"}, FALSE)
    \/ SetExpiring(TwoKeys, {"1"}, FALSE)
    \/ Get(TwoKeys, FALSE)
    \/ Del(TwoKeys, FALSE)
    \/ ConfigSetMaxmemory({"50", "115"}, FALSE)
    \/ Tick
    \/ Sweep

SpecKeyspace == Init /\ [][NextKeyspace]_vars

\* expiry: SET with and without options, GET and DEL as time passes, the
\* sweep running at any time
NextExpiry ==
    \/ SetPlain(TwoKeys, {"1"}, TRUE)
    \/ SetExpiring(TwoKeys, {"22"}, TRUE)
    \/ Get(TwoKeys, TRUE)
    \/ Del(TwoKeys, TRUE)
    \/ Tick
    \/ Sweep

SpecExpiry == Init /\ [][NextExpiry]_vars

\* memory: SET and GET on three keys under changing limits
NextMemory ==
    \/ SetPlain(AllKeys, Vals, TRUE)
    \/ Get(AllKeys, TRUE)
    \/ ConfigSetMaxmemory({"50", "115"}, TRUE)

SpecMemory == Init /\ [][NextMemory]_vars

(***************************************************************************)
(* The AOF specification: SET and DEL on one key, the commands that read   *)
(* or fail, and AOF ENABLE and AOF DISABLE in any order.                   *)
(***************************************************************************)

\* the most bytes the AOF file holds before a further SET or DEL is taken
MaxAofBytes == 60

AofBounded == Len(engine.aof_disk) <= MaxAofBytes

\* AOF ENABLE or AOF DISABLE, also when AOF is in that state already
AofSwitch ==
    \E sub \in {"ENABLE", "disable"} : Exec(Cmd(<<"AOF", sub>>), TRUE)

AofSet == AofBounded /\ SetPlain({"a"}, {"1"}, TRUE)

AofDel == AofBounded /\ Del({"a"}, TRUE)

\* commands that change no key
ReadOnly ==
    \E args \in {<<"PING">>, <<"ECHO", "a">>, <<"CONFIG", "GET", "maxmemory">>,
                 <<"CONFIG", "SET", "appendfsync", "no">>, <<"AOF", "STATUS">>,
                 <<"INFO">>, <<"NOPE">>} :
        Exec(Cmd(args), TRUE)

\* SET and DEL with too few arguments or a bad option
Failing ==
    \E args \in {<<"SET", "a">>, <<"SET", "a", "1", "EX">>,
                 <<"SET", "a", "1", "EX", "0">>, <<"SET", "a", "1", "KEEP", "1">>,
                 <<"DEL">>} :
        Exec(Cmd(args), TRUE)

NextAof ==
    \/ AofSwitch
    \/ AofSet
    \/ AofDel
    \/ Get({"a"}, TRUE)
    \/ ReadOnly
    \/ Failing

SpecAof == Init /\ [][NextAof]_vars

(***************************************************************************)
(* The restart specification: the server appends to the AOF, the process  *)
(* ends, and main starts again with the file on disk.                      *)
(***************************************************************************)

MaxStarts == 2

\* the process ends and main starts again: the statics of dispatcher.cpp
\* are initialised anew, the AOF file is what the last run left, and main
\* goes from createListenSocket to the loop
Restart ==
    /\ boot.starts < MaxStarts
    /\ engine' = [InitEngine EXCEPT !.aof_disk = engine.aof_disk]
    /\ boot' = [starts |-> boot.starts + 1, file |-> engine.aof_disk,
                replayed |-> <<>>, rejected |-> FALSE, reported |-> "none",
                argv |-> boot.argv, port |-> boot.port]
    /\ last' = NoStep
    /\ shadow' = [k \in AllKeys |-> NoSet]
    /\ UNCHANGED <<now, loopVars, codec, round>>

NextRestart ==
    \/ AofSwitch
    \/ AofSet
    \/ AofDel
    \/ Get({"a"}, TRUE)
    \/ Restart

SpecRestart == Init /\ [][NextRestart]_vars

(***************************************************************************)
(* The replay specification: replayAOF called on an AOF file of whole,     *)
(* truncated and malformed frames.                                         *)
(***************************************************************************)

SetA == serializeResp(Cmd(<<"SET", "a", "1">>))
SetB == serializeResp(Cmd(<<"SET", "b", "22">>))
SetC == serializeResp(Cmd(<<"SET", "c", "x\ny">>))
DelA == serializeResp(Cmd(<<"DEL", "a">>))

\* the files replayAOF finds: empty, whole frames, a value holding a line
\* feed, a last frame cut short, and a byte that starts no RESP value
\* before the first frame and between two frames
ReplayFiles ==
    {"", SetA, SetA \o DelA, SetA \o SetB, SetC \o SetB,
     SetA \o Mid(SetB, 0, 9), "x" \o SetA, SetA \o "x" \o SetB,
     SetA \o "x\r\n" \o SetB}

\* the file on disk is one of `files`
FileFound(files) ==
    \E f \in files :
        /\ engine' = [engine EXCEPT !.aof_disk = f]
        /\ last' = NoStep
        /\ UNCHANGED <<now, shadow, loopVars, codec, boot, round>>

\* replayAOF() is called
Replay ==
    LET r == replayAOF(engine, now)
    IN  /\ engine' = r.st
        /\ boot' = [boot EXCEPT !.file = engine.aof_disk,
                                !.replayed = r.dispatched,
                                !.rejected = r.rejected,
                                !.reported = r.reported]
        /\ last' = NoStep
        /\ UNCHANGED <<now, shadow, loopVars, codec, round>>

NextReplay ==
    \/ AofSwitch
    \/ FileFound(ReplayFiles)
    \/ Replay

SpecReplay == Init /\ [][NextReplay]_vars

(***************************************************************************)
(* The arity specification: every command name with too few, enough and    *)
(* too many arguments.                                                     *)
(***************************************************************************)

\* the argument vectors dispatched
ArityCommands ==
    {<<"PING">>, <<"PING", "a">>, <<"PING", "a", "b">>,
     <<"ECHO">>, <<"echo", "a">>, <<"ECHO", "a", "b">>,
     <<"SET">>, <<"SET", "a">>, <<"SET", "a", "1">>, <<"SET", "a", "1", "EX">>,
     <<"SET", "a", "1", "EX", "1">>, <<"SET", "a", "1", "EX", "1", "PX">>,
     <<"GET">>, <<"GET", "b">>, <<"GET", "b", "a">>,
     <<"DEL">>, <<"DEL", "a">>, <<"del", "a", "b">>,
     <<"CONFIG">>, <<"CONFIG", "SET">>, <<"CONFIG", "SET", "appendfsync">>,
     <<"CONFIG", "SET", "appendfsync", "no">>,
     <<"CONFIG", "SET", "appendfsync", "no", "x">>,
     <<"CONFIG", "GET">>, <<"CONFIG", "get", "maxmemory">>,
     <<"CONFIG", "GET", "maxmemory", "x">>,
     <<"AOF">>, <<"AOF", "STATUS">>, <<"AOF", "ENABLE", "x">>,
     <<"INFO">>, <<"INFO", "x">>, <<"info", "x", "y">>,
     <<"NOPE">>, <<"NOPE", "a">>}

Call(argvs) == \E args \in argvs : Exec(Cmd(args), TRUE)

NextArity == Call(ArityCommands)

SpecArity == Init /\ [][NextArity]_vars

(***************************************************************************)
(* The INFO specification: SET, DEL, expiry and eviction on two keys, and  *)
(* INFO asked at any time.                                                 *)
(***************************************************************************)

Info == Exec(Cmd(<<"INFO">>), TRUE)

NextInfo ==
    \/ SetPlain(TwoKeys, {"1"}, TRUE)
    \/ SetExpiring(TwoKeys, {"22"}, TRUE)
    \/ Del(TwoKeys, TRUE)
    \/ ConfigSetMaxmemory({"50"}, TRUE)
    \/ Tick
    \/ Sweep
    \/ Info

SpecInfo == Init /\ [][NextInfo]_vars

(***************************************************************************)
(* The startup specification: the process is started with no argument,     *)
(* with a port, and with a port and a further argument, and serves SET,    *)
(* GET and DEL between starts.                                             *)
(***************************************************************************)

\* the command lines: each argument is a decimal port number
Argvs == {<<>>, <<"6379">>, <<"7000">>, <<"6379", "0">>, <<"7000", "6379">>}

\* the process is started with one of `argvs`
Start(argvs) ==
    \E argv \in argvs :
        /\ boot.starts < MaxStarts
        /\ engine' = [InitEngine EXCEPT !.aof_disk = engine.aof_disk]
        /\ boot' = [starts |-> boot.starts + 1, file |-> engine.aof_disk,
                    replayed |-> <<>>, rejected |-> FALSE, reported |-> "none",
                    argv |-> argv, port |-> selectPort(argv)]
        /\ last' = NoStep
        /\ shadow' = [k \in AllKeys |-> NoSet]
        /\ UNCHANGED <<now, loopVars, codec, round>>

NextStart ==
    \/ Start(Argvs)
    \/ SetPlain(TwoKeys, {"1"}, TRUE)
    \/ Get(TwoKeys, TRUE)
    \/ Del(TwoKeys, TRUE)

SpecStart == Init /\ [][NextStart]_vars

(***************************************************************************)
(* The rejection specification: SET on two keys with the AOF on or off and *)
(* the memory limit above or below the estimate, and the SET, GET and DEL  *)
(* that dispatchCommand answers with an error.                             *)
(***************************************************************************)

\* SET with too few arguments, a dangling option, an expire time that is
\* not positive, a TTL that is not an integer, an unknown option; GET and
\* DEL with the wrong number of arguments
RejectedCommands ==
    {<<"SET", "a">>, <<"SET", "b", "1", "EX", "1", "PX">>,
     <<"SET", "a", "1", "EX", "0">>, <<"SET", "a", "1", "EX", "soon">>,
     <<"SET", "b", "1", "KEEP", "1">>, <<"GET">>, <<"GET", "a", "b">>,
     <<"DEL">>}

Rejected == Call(RejectedCommands)

NextRejected ==
    \/ AofBounded /\ SetPlain(TwoKeys, {"1"}, TRUE)
    \/ AofBounded /\ SetExpiring({"a"}, {"22"}, TRUE)
    \/ ConfigSetMaxmemory({"50"}, TRUE)
    \/ AofSwitch
    \/ Rejected

SpecRejected == Init /\ [][NextRejected]_vars

(***************************************************************************)
(* The rebuild specification: SET without a TTL and DEL run with the AOF   *)
(* enabled, on keys and values that hold CR and LF, and replayAOF then     *)
(* run on the file from an empty keyspace.                                 *)
(***************************************************************************)

RebuildKeys == {"a", "b\r\n"}
RebuildVals == {"1", "x\ny"}

\* commands reach the file: AOF is enabled and the stream is open and good
AofOn ==
    /\ engine.aof_config.enabled
    /\ engine.aof_file.is_open
    /\ ~engine.aof_file.fail

\* AOF ENABLE while the file is not open
AofEnable ==
    /\ ~engine.aof_file.is_open
    /\ Exec(Cmd(<<"AOF", "ENABLE">>), FALSE)

\* the statics of a process that holds no key, with AOF enabled and the
\* file the last run left
Emptied(st) ==
    [InitEngine EXCEPT !.aof_config.enabled = TRUE, !.aof_disk = st.aof_disk]

\* replayAOF() is called on an empty keyspace
Rebuild ==
    \E r \in {replayAOF(Emptied(engine), now)} :
        /\ boot.starts < MaxStarts
        /\ engine' = r.st
        /\ boot' = [boot EXCEPT !.starts = @ + 1,
                                !.file = engine.aof_disk,
                                !.replayed = r.dispatched,
                                !.rejected = r.rejected,
                                !.reported = r.reported]
        /\ last' = NoStep
        /\ UNCHANGED <<now, shadow, loopVars, codec, round>>

NextRebuild ==
    \/ AofEnable
    \/ AofOn /\ AofBounded /\ SetPlain(RebuildKeys, RebuildVals, FALSE)
    \/ AofOn /\ AofBounded /\ Del({"a"}, FALSE)
    \/ Rebuild

SpecRebuild == Init /\ [][NextRebuild]_vars

(***************************************************************************)
(* The event-loop specification: main's loop, one action per system call   *)
(* it reaches, and the clients connecting, sending their script in         *)
(* pieces, closing and resetting.                                          *)
(***************************************************************************)

\* the frames of the clients' scripts
PingFrame == serializeResp(Cmd(<<"PING">>))
EchoFrame == serializeResp(Cmd(<<"ECHO", "a">>))

\* frames the dispatcher answers with an error: an unknown command, a GET
\* without its key, a SET with an expiry of zero
UnknownFrame == serializeResp(Cmd(<<"NOPE">>))
ArityFrame == serializeResp(Cmd(<<"GET">>))
OptionFrame == serializeResp(Cmd(<<"SET", "a", "1", "EX", "0">>))

\* client 1 pipelines two PINGs, client 2 sends one; client 3 sends a
\* PING, a stray byte and an ECHO; client 4 sends a stray byte and two
\* PINGs; client 5 sends a stray byte and three commands that fail;
\* client 6 sends a stray byte, an unknown command and the header of an
\* array of more than VectorMaxSize elements
OversizedHeader == "*120\r\n"

Script ==
    <<PingFrame \o PingFrame, PingFrame, PingFrame \o "x" \o EchoFrame,
      "x" \o PingFrame \o PingFrame,
      "x" \o UnknownFrame \o ArityFrame \o OptionFrame,
      "x" \o UnknownFrame \o OversizedHeader>>

\* the position of the clients pass after pfds[k] is done: the next lower
\* client, or the top of the loop
Advance(k) ==
    IF k - 1 >= 2
    THEN pc' = "clients" /\ fdIndex' = k - 1
    ELSE pc' = "top" /\ fdIndex' = 0

\* the client whose connection the server holds as descriptor fd
PeerOf(fd) == CHOOSE c \in Clients : peers[c].phase = "open" /\ peers[c].fd = fd

\* the server closed descriptor fd
Dropped(fd) == [peers EXCEPT ![PeerOf(fd)].phase = "dropped", ![PeerOf(fd)].rx = ""]

\* main is about to call read() on pfds[fdIndex]
AtRead ==
    \/ pc = "read"
    \/ /\ pc = "clients"
       /\ pfds[fdIndex].revents \cap ErrorEvents = {}
       /\ "POLLIN" \in pfds[fdIndex].revents

\* main is at the writable check of pfds[fdIndex]
AtWrite ==
    \/ pc = "write"
    \/ /\ pc = "clients"
       /\ pfds[fdIndex].revents # {}
       /\ pfds[fdIndex].revents \cap ErrorEvents = {}
       /\ "POLLIN" \notin pfds[fdIndex].revents

\* the clients pass takes up pfds[fdIndex], whose revents are not empty
Visit ==
    round' = IF pc = "clients" THEN [round EXCEPT !.seen = Append(@, pfds[fdIndex].fd)]
             ELSE round

\* the read() main makes, returning n with outbuf as it is; dispatched_at
\* lists the size of outbuf before each request the call's parse loop
\* dispatched
ReadCall(n) ==
    [op |-> "read", fd |-> pfds[fdIndex].fd, n |-> n,
     outbuf_before |-> Len(conns[pfds[fdIndex].fd].outbuf),
     dispatched_at |-> <<>>]

\* the passes of a parse-loop trace that dispatched a request
RECURSIVE Dispatched(_)
Dispatched(trace) ==
    IF trace = <<>> THEN <<>>
    ELSE IF Head(trace).err = "" THEN <<Head(trace)>> \o Dispatched(Tail(trace))
    ELSE Dispatched(Tail(trace))

\* a parse-loop trace without the sizes of outbuf
Passes(trace) ==
    [k \in 1..Len(trace) |->
        [consumed |-> trace[k].consumed, err |-> trace[k].err,
         req |-> trace[k].req, resp |-> trace[k].resp]]

\* The top of the loop up to the return of poll(): the budget reset, the
\* cleanup timer, the interest update and poll.  d is the time spent in
\* poll; res is poll's outcome.
LoopTop(waits, outcomes) ==
    /\ pc = "top"
    /\ \E d \in waits, res \in outcomes :
        LET due == now - lastCleanup >= cleanupInterval
            ps == updateInterest(pfds, conns)
            polled == [k \in 1..Len(ps) |->
                          [ps[k] EXCEPT !.revents =
                              IF k = 1
                              THEN IF backlog # <<>> THEN {"POLLIN"} ELSE {}
                              ELSE Readiness(ps[k], peers[PeerOf(ps[k].fd)])]]
        IN  /\ now + d <= MaxTime
            /\ remainingWriteBudget' = kWriteBudgetPerLoop
            /\ wroteThisLoop' = 0
            /\ engine' = IF due THEN cleanupExpiredKeys(engine, now) ELSE engine
            /\ lastCleanup' = IF due THEN now ELSE lastCleanup
            /\ now' = now + d
            /\ sys' = NoCall
            /\ round' = IF res = "ready"
                        THEN [ready |-> {polled[k].fd : k \in {j \in 2..Len(polled) :
                                                               polled[j].revents # {}}},
                              seen |-> <<>>]
                        ELSE NoPass
            /\ CASE res = "ready" ->
                      /\ pfds' = polled
                      /\ IF "POLLIN" \in polled[1].revents
                         THEN pc' = "accept" /\ fdIndex' = 0
                         ELSE Advance(Len(polled) + 1)
                 [] res = "EINTR" -> pfds' = ps /\ pc' = "top" /\ fdIndex' = 0
                 [] res = "fail" -> pfds' = ps /\ pc' = "exit" /\ fdIndex' = 0
            /\ UNCHANGED <<conns, peers, backlog, log, written, last, shadow, codec, boot>>

\* the accept-drain loop, then the start of the clients pass
AcceptDrain ==
    /\ pc = "accept"
    /\ LET a == acceptAll(backlog, pfds, conns, <<>>)
       IN  /\ pfds' = a.pfds
           /\ conns' = a.conns
           /\ peers' = [c \in Clients |->
                          IF \E k \in 1..Len(backlog) : backlog[k] = c
                          THEN [peers[c] EXCEPT
                                   !.phase = "open",
                                   !.fd = a.fds[CHOOSE k \in 1..Len(backlog) :
                                                    backlog[k] = c]]
                          ELSE peers[c]]
           /\ Advance(Len(a.pfds) + 1)
    /\ backlog' = <<>>
    /\ sys' = NoCall
    /\ UNCHANGED <<engine, now, last, shadow, codec, boot, round, remainingWriteBudget, lastCleanup,
                   log, written, wroteThisLoop>>

\* if (!(p.revents)) continue
Skip ==
    /\ pc = "clients"
    /\ pfds[fdIndex].revents = {}
    /\ Advance(fdIndex)
    /\ sys' = NoCall
    /\ UNCHANGED <<engine, now, last, shadow, codec, boot, round, pfds, conns, remainingWriteBudget,
                   lastCleanup, peers, backlog, log, written, wroteThisLoop>>

\* removeClient(fdIndex) and on to the next descriptor
Remove ==
    LET gone == removeClient(fdIndex, pfds, conns)
    IN  /\ pfds' = gone.pfds
        /\ conns' = gone.conns
        /\ peers' = Dropped(pfds[fdIndex].fd)
        /\ Advance(fdIndex)
        /\ UNCHANGED <<engine, now, last, shadow, codec, boot, remainingWriteBudget,
                       lastCleanup, backlog, log, written, wroteThisLoop>>
    /\ Visit

\* POLLERR, POLLHUP or POLLNVAL reported
ErrorHangup ==
    /\ pc = "clients"
    /\ pfds[fdIndex].revents \cap ErrorEvents # {}
    /\ Remove
    /\ sys' = NoCall

\* read() returns r > 0: append to inbuf and run the parse loop; recorded
\* says whether the history variable log keeps the passes
ReadStep(recorded) ==
    /\ AtRead
    /\ LET fd == pfds[fdIndex].fd
           c == PeerOf(fd)
           r == Min(kReadChunk, Len(peers[c].rx))
           conn == [conns[fd] EXCEPT !.inbuf = @ \o Mid(peers[c].rx, 0, r)]
           run == parseLoop(conn, engine, [now |-> now, openOk |-> TRUE], <<>>)
       IN  /\ peers[c].rx # ""
           /\ ~peers[c].reset
           /\ ~run.thrown
           /\ conns' = [conns EXCEPT ![fd] = run.conn]
           /\ engine' = run.st
           /\ peers' = [peers EXCEPT ![c].rx = From(@, r)]
           /\ log' = IF recorded THEN [log EXCEPT ![c] = @ \o Passes(run.trace)]
                     ELSE log
           /\ sys' = [ReadCall(r) EXCEPT !.dispatched_at =
                         [k \in 1..Len(Dispatched(run.trace)) |->
                             Dispatched(run.trace)[k].outbuf_before]]
    /\ pc' = "read"
    /\ UNCHANGED <<now, last, shadow, codec, boot, pfds, fdIndex, remainingWriteBudget,
                   lastCleanup, backlog, written, wroteThisLoop>>
    /\ Visit

ReadData == ReadStep(TRUE)

\* the process is terminated: the kernel closes every descriptor it held
Terminated ==
    /\ pc' = "abort"
    /\ fdIndex' = 0
    /\ pfds' = <<>>
    /\ conns' = <<>>
    /\ peers' = [c \in Clients |->
                    IF peers[c].phase \in {"open", "queued"}
                    THEN [peers[c] EXCEPT !.phase = "dropped", !.rx = ""]
                    ELSE peers[c]]
    /\ backlog' = <<>>

\* read() returns r > 0 and the parse loop throws: no handler catches the
\* exception and std::terminate ends the process
ReadThrows ==
    /\ AtRead
    /\ LET fd == pfds[fdIndex].fd
           c == PeerOf(fd)
           r == Min(kReadChunk, Len(peers[c].rx))
           conn == [conns[fd] EXCEPT !.inbuf = @ \o Mid(peers[c].rx, 0, r)]
           run == parseLoop(conn, engine, [now |-> now, openOk |-> TRUE], <<>>)
       IN  /\ peers[c].rx # ""
           /\ ~peers[c].reset
           /\ run.thrown
           /\ engine' = run.st
           /\ sys' = ReadCall(r)
    /\ Terminated
    /\ UNCHANGED <<now, last, shadow, codec, boot, remainingWriteBudget,
                   lastCleanup, log, written, wroteThisLoop>>
    /\ Visit

\* read() returns 0: the client closed
ReadEOF ==
    /\ AtRead
    /\ LET k == peers[PeerOf(pfds[fdIndex].fd)]
       IN  k.rx = "" /\ k.fin /\ ~k.reset
    /\ Remove
    /\ sys' = ReadCall(0)

\* read() fails with EAGAIN: the drain is over, on to the writable check
ReadWouldBlock ==
    /\ AtRead
    /\ LET k == peers[PeerOf(pfds[fdIndex].fd)]
       IN  k.rx = "" /\ ~k.fin /\ ~k.reset
    /\ pc' = "write"
    /\ sys' = ReadCall(-1)
    /\ UNCHANGED <<engine, now, last, shadow, codec, boot, pfds, conns, fdIndex,
                   remainingWriteBudget, lastCleanup, peers, backlog, log,
                   written, wroteThisLoop>>
    /\ Visit

\* read() fails with another error
ReadError ==
    /\ AtRead
    /\ peers[PeerOf(pfds[fdIndex].fd)].reset
    /\ Remove
    /\ sys' = ReadCall(-1)

\* the bytes the writable check may write: 0 without POLLOUT, without
\* pending output or without budget
Writable ==
    LET p == pfds[fdIndex]
    IN  IF "POLLOUT" \in p.revents /\ p.fd \in DOMAIN conns
        THEN maxWrite(Len(conns[p.fd].outbuf), remainingWriteBudget)
        ELSE 0

\* the writable check makes no call
WriteNothing ==
    /\ AtWrite
    /\ Writable = 0
    /\ Advance(fdIndex)
    /\ sys' = NoCall
    /\ UNCHANGED <<engine, now, last, shadow, codec, boot, pfds, conns, remainingWriteBudget,
                   lastCleanup, peers, backlog, log, written, wroteThisLoop>>
    /\ Visit

\* the results a write() of up to n bytes may have
WriteResults(n) == {1, n}

\* write() returns w > 0; recorded says whether the history variable
\* written keeps the bytes
WriteStep(recorded) ==
    /\ AtWrite
    /\ Writable > 0
    /\ LET fd == pfds[fdIndex].fd
           c == PeerOf(fd)
       IN  /\ ~peers[c].reset
           /\ \E w \in WriteResults(Writable) :
                /\ conns' = [conns EXCEPT ![fd] = removeFromOutbuf(@, w)]
                /\ remainingWriteBudget' = remainingWriteBudget - w
                /\ written' = IF recorded
                              THEN [written EXCEPT ![c] = @ \o Mid(conns[fd].outbuf, 0, w)]
                              ELSE written
                /\ wroteThisLoop' = wroteThisLoop + w
                /\ sys' = [op |-> "write", fd |-> fd, n |-> w,
                           outbuf_before |-> Len(conns[fd].outbuf),
                           dispatched_at |-> <<>>]
    /\ Advance(fdIndex)
    /\ UNCHANGED <<engine, now, last, shadow, codec, boot, pfds, lastCleanup, peers, backlog, log>>
    /\ Visit

WriteSome == WriteStep(TRUE)

\* write() on a connection that the peer closed and then reset: the
\* kernel raises SIGPIPE, whose disposition main leaves at the default,
\* and the process is terminated
WriteSigpipe ==
    /\ AtWrite
    /\ Writable > 0
    /\ LET k == peers[PeerOf(pfds[fdIndex].fd)]
       IN  k.reset /\ k.fin
    /\ Terminated
    /\ sys' = [op |-> "write", fd |-> pfds[fdIndex].fd, n |-> -1,
               outbuf_before |-> Len(conns[pfds[fdIndex].fd].outbuf),
               dispatched_at |-> <<>>]
    /\ UNCHANGED <<engine, now, last, shadow, codec, boot, remainingWriteBudget,
                   lastCleanup, log, written, wroteThisLoop>>
    /\ Visit

\* write() fails with an error other than EAGAIN (ECONNRESET on a
\* connection reset while established)
WriteError ==
    /\ AtWrite
    /\ Writable > 0
    /\ LET k == peers[PeerOf(pfds[fdIndex].fd)]
       IN  k.reset /\ ~k.fin
    /\ Remove
    /\ sys' = [op |-> "write", fd |-> pfds[fdIndex].fd, n |-> -1,
               outbuf_before |-> Len(conns[pfds[fdIndex].fd].outbuf),
               dispatched_at |-> <<>>]

\* a client connects: its connection waits in the listen queue
ClientConnect(who) ==
    \E c \in who :
        /\ peers[c].phase = "idle"
        /\ peers' = [peers EXCEPT ![c].phase = "queued"]
        /\ backlog' = Append(backlog, c)
        /\ UNCHANGED <<engine, now, last, shadow, codec, boot, round, pfds, conns, pc, fdIndex,
                       remainingWriteBudget, lastCleanup, log, written,
                       wroteThisLoop, sys>>

\* a client sends the next piece of its script, of one of the sizes given
ClientSend(who, sizes) ==
    \E c \in who, n \in sizes :
        LET m == Min(n, Len(Script[c]) - peers[c].pos)
        IN  /\ peers[c].phase = "open"
            /\ ~peers[c].fin
            /\ ~peers[c].reset
            /\ m > 0
            /\ peers' = [peers EXCEPT ![c].rx = @ \o Mid(Script[c], peers[c].pos, m),
                                      ![c].pos = @ + m]
            /\ UNCHANGED <<engine, now, last, shadow, codec, boot, round, pfds, conns, pc, fdIndex,
                           remainingWriteBudget, lastCleanup, backlog, log,
                           written, wroteThisLoop, sys>>

\* a client closes its end
ClientClose(who) ==
    \E c \in who :
        /\ peers[c].phase = "open"
        /\ ~peers[c].fin
        /\ ~peers[c].reset
        /\ peers' = [peers EXCEPT ![c].fin = TRUE]
        /\ UNCHANGED <<engine, now, last, shadow, codec, boot, round, pfds, conns, pc, fdIndex,
                       remainingWriteBudget, lastCleanup, backlog, log,
                       written, wroteThisLoop, sys>>

\* a client resets the connection
ClientReset(who) ==
    \E c \in who :
        /\ peers[c].phase = "open"
        /\ ~peers[c].reset
        /\ peers' = [peers EXCEPT ![c].reset = TRUE]
        /\ UNCHANGED <<engine, now, last, shadow, codec, boot, round, pfds, conns, pc, fdIndex,
                       remainingWriteBudget, lastCleanup, backlog, log,
                       written, wroteThisLoop, sys>>

\* what the server does, whatever the clients are
ServerStep ==
    \/ LoopTop({0}, {"ready"})
    \/ AcceptDrain
    \/ Skip
    \/ ReadData
    \/ ReadEOF
    \/ ReadWouldBlock
    \/ WriteNothing
    \/ WriteSome

\* two clients sending PINGs
NextLoop ==
    \/ ServerStep
    \/ ClientConnect({1, 2})
    \/ ClientSend({1, 2}, {14, 20})
    \/ ClientClose({1, 2})

SpecLoop == Init /\ [][NextLoop]_vars

\* what the server does with a connection that was reset
FaultStep ==
    \/ ErrorHangup
    \/ ReadError
    \/ WriteError
    \/ WriteSigpipe

\* one client whose stream holds a malformed byte between two commands,
\* and who may close or reset the connection at any time
NextStream ==
    \/ ServerStep
    \/ FaultStep
    \/ ClientConnect({3})
    \/ ClientSend({3}, {5, 16})
    \/ ClientClose({3})
    \/ ClientReset({3})

SpecStream == Init /\ [][NextStream]_vars

\* client 1 pipelines its PINGs and stays; client 6 sends malformed bytes,
\* an invalid command and an oversized count header, and may close or
\* reset the connection at any time
NextLeak ==
    \/ ServerStep
    \/ FaultStep
    \/ ReadThrows
    \/ ClientConnect({1, 6})
    \/ ClientSend({1}, {28})
    \/ ClientSend({6}, {15, 21})
    \/ ClientClose({6})
    \/ ClientReset({6})

SpecLeak == Init /\ [][NextLeak]_vars

\* one client whose stream starts with a malformed byte, sent together
\* with the command that follows it or in smaller pieces
NextResync ==
    \/ ServerStep
    \/ ClientConnect({4})
    \/ ClientSend({4}, {7, 15})
    \/ ClientClose({4})

SpecResync == Init /\ [][NextResync]_vars

\* one client all of whose requests are answered with an error
NextErrors ==
    \/ ServerStep
    \/ ClientConnect({5})
    \/ ClientSend({5}, {15, 70})
    \/ ClientClose({5})

SpecErrors == Init /\ [][NextErrors]_vars

\* the most output a flooding client lets the server hold for it before it
\* pauses
MaxFlood == 16

\* A client that pipelines PINGs without end and reads every reply the
\* server writes: it sends the next frame once the last was read, for as
\* long as the server holds fewer than MaxFlood bytes of replies for it.
ClientFlood(who) ==
    \E c \in who :
        /\ peers[c].phase = "open"
        /\ peers[c].rx = ""
        /\ Len(conns[peers[c].fd].outbuf) < MaxFlood
        /\ peers' = [peers EXCEPT ![c].rx = PingFrame]
        /\ UNCHANGED <<engine, now, last, shadow, codec, boot, round, pfds, conns, pc, fdIndex,
                       remainingWriteBudget, lastCleanup, backlog, log,
                       written, wroteThisLoop, sys>>

\* the server's steps other than a read that returns data, no history kept
\* of the bytes written
ServerRun ==
    \/ LoopTop({0}, {"ready"})
    \/ AcceptDrain
    \/ Skip
    \/ ReadWouldBlock
    \/ WriteNothing
    \/ WriteStep(FALSE)

\* main is about to call read() on a socket that holds data: the condition
\* under which ReadStep can be taken
ReadReady ==
    /\ AtRead
    /\ peers[PeerOf(pfds[fdIndex].fd)].rx # ""
    /\ ~peers[PeerOf(pfds[fdIndex].fd)].reset

\* client 1 connects and sends its two PINGs; client 2 connects and floods
NextStarve ==
    \/ ServerRun
    \/ ReadStep(FALSE)
    \/ ClientConnect({1, 2})
    \/ ClientSend({1}, {28})
    \/ ClientFlood({2})

\* main's loop never blocks for longer than poll's timeout, so the server
\* always takes its next step: weak fairness of its steps, that of ReadStep
\* written with its enabling condition ReadReady.  Nothing is assumed of
\* the clients.
SpecStarve ==
    /\ Init
    /\ [][NextStarve]_vars
    /\ WF_vars(ServerRun)
    /\ ([]<>(~ReadReady) \/ []<><<ReadStep(FALSE)>>_vars)

\* three clients that connect at any time: client 1 closes, client 4
\* resets, and client 2 sends its PING and closes or resets, at any time
NextPass ==
    \/ ServerRun
    \/ ReadStep(FALSE)
    \/ ReadEOF
    \/ FaultStep
    \/ ClientConnect({1, 2, 4})
    \/ ClientSend({2}, {14})
    \/ ClientClose({1, 2})
    \/ ClientReset({2, 4})

SpecPass == Init /\ [][NextPass]_vars

(***************************************************************************)
(* The codec specifications: a caller serialises a RespValue, feeds the    *)
(* bytes to tryParseRespMessage piece by piece and calls it after each     *)
(* append, keeping its variables consumed and out from call to call.       *)
(***************************************************************************)

\* RespValues of every variant: empty and non-empty text, integers up to
\* the largest long long, bulk strings holding CR, LF and a control byte,
\* both nulls, the empty array, an array nesting every variant, a command
CodecValues ==
    {makeSimpleString("OK"), makeSimpleString(""), makeError("ERR x"),
     makeInteger(0), makeInteger(-7), makeInteger(LLongMax),
     makeBulkString(""), makeBulkString("a\r\n\tb"),
     makeNullBulkString, makeNullArray, makeArray(<<>>),
     makeArray(<<makeBulkString("\r\n"), makeInteger(-1), makeNullBulkString,
                 makeArray(<<makeSimpleString("x")>>), makeNullArray>>),
     Cmd(<<"PING">>)}

\* the values a caller's `out` and `consumed` hold before the first call
CallerOuts == {RespValue("SimpleString"), makeBulkString("old")}
CallerCounts == {0, 7}

\* What a call that returned r may have returned in fact: r itself, or,
\* where the digit loop overflowed (undefined behaviour), r with any long
\* long as the integer read.
Outcomes(r) ==
    IF r.ub THEN {[r EXCEPT !.out.integer = x] : x \in LLongMin..LLongMax}
    ELSE {r}

\* the caller serialises one of `values`
Encode(values) ==
    \E v \in values, out0 \in CallerOuts, c0 \in CallerCounts :
        /\ codec' = [v |-> v, fed |-> "", rest |-> serializeResp(v),
                     consumed |-> c0, out |-> out0,
                     before |-> [consumed |-> c0, out |-> out0],
                     ret |-> "none", err |-> ""]
        /\ UNCHANGED <<engine, now, last, shadow, loopVars, boot, round>>

\* the caller's variables after tryParseRespMessage returned r on `data`
Called(data, n, r) ==
    [codec EXCEPT !.fed = data,
                  !.rest = From(@, n),
                  !.before = [consumed |-> codec.consumed, out |-> codec.out],
                  !.consumed = r.consumed,
                  !.out = r.out,
                  !.ret = IF r.ok THEN "Complete"
                          ELSE IF r.err = "" THEN "Incomplete"
                          ELSE "ProtocolError",
                  !.err = r.err]

\* the next n bytes arrive and the caller parses what it holds
FeedBytes(n) ==
    \E r \in Outcomes(tryParseRespMessage(codec.fed \o Mid(codec.rest, 0, n),
                                          codec.out)) :
        /\ codec' = Called(codec.fed \o Mid(codec.rest, 0, n), n, r)
        /\ UNCHANGED <<engine, now, last, shadow, loopVars, boot, round>>

\* the bytes arrive in pieces of any size
Feed ==
    /\ codec.rest # ""
    /\ \E n \in 1..Len(codec.rest) : FeedBytes(n)

\* the bytes arrive at once
FeedAll ==
    /\ codec.rest # ""
    /\ FeedBytes(Len(codec.rest))

\* every partition of every value's encoding
NextCodec ==
    \/ Encode(CodecValues)
    \/ Feed

SpecCodec == Init /\ [][NextCodec]_vars

\* whole encodings, the smallest long long among the values
NextRoundTrip ==
    \/ Encode(CodecValues \cup {makeInteger(LLongMin)})
    \/ FeedAll

SpecRoundTrip == Init /\ [][NextRoundTrip]_vars

(***************************************************************************)
(* The extension specification: a connection's inbound buffer grows piece  *)
(* by piece, parsed after each piece, for as long as the parser asks for   *)
(* more data.                                                              *)
(***************************************************************************)

\* the most bytes the buffer holds before a further piece arrives
MaxInbuf == 4

\* the pieces a client sends
Pieces == {"$", ":", "*", "+", "1", "x", "\r", "\n"}

\* a piece arrives behind an empty buffer or one the parser found
\* incomplete, and the buffer is parsed
Receive(pieces) ==
    /\ codec.ret \in {"none", "Incomplete"}
    /\ Len(codec.fed) < MaxInbuf
    /\ \E e \in pieces :
         \E r \in Outcomes(tryParseRespMessage(codec.fed \o e,
                                               RespValue("SimpleString"))) :
            codec' = Called(codec.fed \o e, 0, r)
    /\ UNCHANGED <<engine, now, last, shadow, loopVars, boot, round>>

NextExtend == Receive(Pieces)

SpecExtend == Init /\ [][NextExtend]_vars

(***************************************************************************)
(* Properties of the keyspace engine.                                      *)
(***************************************************************************)

\* the command name of a recorded step, "" for a step that ran no command
OpOf(l) ==
    IF l = NoStep \/ l.cmd.array = <<>> THEN "" ELSE toUpperASCII(l.cmd.array[1].buf)

\* the recorded step is a SET that returned OK
SetSucceeded(l) == OpOf(l) = "SET" /\ IsOK(l.resp)

\* the key a recorded SET or GET names
KeyOf(l) == l.cmd.array[2].buf

\* the elements of a sequence
Range(seq) == {seq[i] : i \in 1..Len(seq)}

\* an entry with expiry ttl_ms is live at time t
LiveAt(ttl_ms, t) == ttl_ms = -1 \/ t < ttl_ms

\* the estimate of the keyspace kv without key k
EstimateWithout(kv, k) == SumFootprint(kv, DOMAIN kv \ {k})

\* the estimate of the keyspace kv after the first n keys of seq are erased
EstimateAfter(kv, seq, n) == SumFootprint(kv, DOMAIN kv \ {seq[i] : i \in 1..n})

\* C2: after any sequence of SET, GET, DEL, sweep and eviction, the keys of
\* the expiry index are exactly the keys of the keyspace whose entry has a
\* finite expiry, and the index holds that entry's expiry.
C2_ExpiryIndexConsistent ==
    LET kv == engine.kv_cache
        ex == engine.expires
    IN  /\ DOMAIN ex = {k \in DOMAIN kv : kv[k].ttl_ms # -1}
        /\ \A k \in DOMAIN ex : ex[k] = kv[k].ttl_ms

\* an eviction has run, time has passed, and the keyspace holds an entry
\* with an expiry next to one without
C2_Witness ==
    /\ engine.mem_stats.evictions_total > 0
    /\ now > 0
    /\ \E k \in DOMAIN engine.kv_cache : engine.kv_cache[k].ttl_ms # -1
    /\ \E k \in DOMAIN engine.kv_cache : engine.kv_cache[k].ttl_ms = -1

\* C3: whenever SET k v returns OK, also when it triggered eviction or
\* overwrote k, k is in the keyspace with value v and access_count 1.
C3_SetStoresKey ==
    SetSucceeded(last) =>
        /\ KeyOf(last) \in DOMAIN engine.kv_cache
        /\ engine.kv_cache[KeyOf(last)].val = last.cmd.array[3].buf
        /\ engine.kv_cache[KeyOf(last)].access_count = 1

\* a SET returned OK whose own eviction removed the key it was writing
C3_Witness ==
    /\ SetSucceeded(last)
    /\ KeyOf(last) \in Range(last.evicted)

\* C4: after a successful SET k v with expiry instant T (none without
\* options) and no later SET, DEL or eviction of k, GET k returns v at every
\* time before T and the null bulk string from T on, whether or not the
\* sweep ran in between.
C4_GetAfterSet ==
    [][(OpOf(last') = "GET" /\ shadow[KeyOf(last')].set) =>
          LET w == shadow[KeyOf(last')]
          IN  last'.resp = IF LiveAt(w.ttl_ms, now)
                           THEN makeBulkString(w.val)
                           ELSE makeNullBulkString]_vars

\* a GET at or after the expiry instant of the key's last SET returned null
C4_Witness ==
    /\ OpOf(last) = "GET"
    /\ shadow[KeyOf(last)].set
    /\ shadow[KeyOf(last)].ttl_ms # -1
    /\ now >= shadow[KeyOf(last)].ttl_ms
    /\ last.resp = makeNullBulkString

\* C5: DEL k1..kn returns the number of distinct keys among k1..kn that were
\* present and not expired when it was called, and leaves none of them in
\* the keyspace or in the expiry index.
C5_DelCountsLive ==
    [][OpOf(last') = "DEL" =>
          LET ks == Range(Tail(ArgsOf(last'.cmd)))
              live == {k \in ks : /\ k \in DOMAIN engine.kv_cache
                                  /\ LiveAt(engine.kv_cache[k].ttl_ms, now)}
          IN  /\ last'.resp = makeInteger(Cardinality(live))
              /\ \A k \in ks : /\ k \notin DOMAIN engine'.kv_cache
                               /\ k \notin DOMAIN engine'.expires]_vars

\* a DEL naming the same key twice, after time has passed, counted it once
C5_Witness ==
    /\ OpOf(last) = "DEL"
    /\ Len(last.cmd.array) = 3
    /\ last.cmd.array[2] = last.cmd.array[3]
    /\ last.resp = makeInteger(1)
    /\ now > 0

\* C6 as stated: after any SET that completes normally the estimate is
\* within memory_limit, unless memory_limit is smaller than the footprint of
\* the entry just inserted.
C6_WithinLimitAfterSet ==
    SetSucceeded(last) =>
        \/ estimateMemoryUsage(engine.kv_cache) <= engine.mem_stats.memory_limit
        \/ engine.mem_stats.memory_limit
              < Footprint(KeyOf(last), engine.kv_cache[KeyOf(last)])

\* C6 as amended: after any SET that completes normally, the estimate taken
\* by the SET's eviction check (before the insert) and the estimate of the
\* entries other than the one just inserted are within memory_limit.
C6_OthersWithinLimitAfterSet ==
    SetSucceeded(last) =>
        /\ engine.mem_stats.estimated_memory <= engine.mem_stats.memory_limit
        /\ EstimateWithout(engine.kv_cache, KeyOf(last))
              <= engine.mem_stats.memory_limit

\* a SET left the estimate above a limit that is no smaller than the
\* footprint of the entry it inserted
C6_Witness ==
    /\ SetSucceeded(last)
    /\ estimateMemoryUsage(engine.kv_cache) > engine.mem_stats.memory_limit
    /\ engine.mem_stats.memory_limit
          >= Footprint(KeyOf(last), engine.kv_cache[KeyOf(last)])

\* C7: after any sequence of SET commands the estimate is at most
\* memory_limit plus the footprint of the entry the last SET inserted.
C7_MemoryBound ==
    SetSucceeded(last) =>
        estimateMemoryUsage(engine.kv_cache)
            <= engine.mem_stats.memory_limit
               + Footprint(KeyOf(last), engine.kv_cache[KeyOf(last)])

\* a SET evicted, left an entry besides the one it wrote, and the estimate
\* is above the limit
C7_Witness ==
    /\ SetSucceeded(last)
    /\ last.evicted # <<>>
    /\ DOMAIN engine.kv_cache # {KeyOf(last)}
    /\ estimateMemoryUsage(engine.kv_cache) > engine.mem_stats.memory_limit

\* C8: a SET that finds the estimate above memory_limit evicts in ascending
\* access_count order and stops as soon as the estimate is at most 0.8 *
\* memory_limit or the keyspace is empty: an evicted entry's access_count is
\* at most that of every later evicted and every surviving entry, an entry
\* is removed only while the estimate exceeds the target, and
\* evictions_total grows by the number of entries removed.
C8_EvictsLeastUsedUntilTarget ==
    [][(SetSucceeded(last')
          /\ estimateMemoryUsage(engine.kv_cache) > engine.mem_stats.memory_limit) =>
          LET kv == engine.kv_cache
              ev == last'.evicted
              limit == engine.mem_stats.memory_limit
              survivors == DOMAIN kv \ Range(ev)
              AboveTarget(m) == 5 * m > 4 * limit
          IN  /\ Range(ev) \subseteq DOMAIN kv
              /\ Cardinality(Range(ev)) = Len(ev)
              /\ \A i, j \in 1..Len(ev) :
                    i < j => kv[ev[i]].access_count <= kv[ev[j]].access_count
              /\ \A i \in 1..Len(ev) : \A k \in survivors :
                    kv[ev[i]].access_count <= kv[k].access_count
              /\ \A i \in 1..Len(ev) : AboveTarget(EstimateAfter(kv, ev, i - 1))
              /\ survivors # {} => ~AboveTarget(EstimateAfter(kv, ev, Len(ev)))
              /\ engine'.mem_stats.evictions_total
                    = engine.mem_stats.evictions_total + Len(ev)]_vars

\* a SET evicted exactly one entry and an entry that had been read since
\* it was written survived
C8_Witness ==
    /\ SetSucceeded(last)
    /\ Len(last.evicted) = 1
    /\ \E k \in DOMAIN engine.kv_cache \ {KeyOf(last)} :
          engine.kv_cache[k].access_count = 2

(***************************************************************************)
(* Properties of the event loop.                                           *)
(***************************************************************************)

RECURSIVE StreamFrames(_)
RECURSIVE StreamFramesParsed(_, _)

\* the frames after tryParseRespMessage returned r on the stream
StreamFramesParsed(stream, r) ==
    IF r.ok
    THEN <<[consumed |-> r.consumed, err |-> "", req |-> r.out]>>
             \o StreamFrames(From(stream, r.consumed))
    ELSE IF r.err # ""
    THEN <<[consumed |-> Max(1, r.consumed), err |-> r.err, req |-> makeNullArray]>>
             \o StreamFrames(From(stream, Max(1, r.consumed)))
    ELSE <<>>

\* The frames of a byte stream in the order they appear: each complete
\* frame with its request, each rejected byte with the parser's error, up to
\* the first incomplete frame.
StreamFrames(stream) ==
    StreamFramesParsed(stream, tryParseRespMessage(stream, RespValue("SimpleString")))

\* what the passes of a log did, without the replies
Frames(l) ==
    [k \in 1..Len(l) |-> [consumed |-> l[k].consumed, err |-> l[k].err, req |-> l[k].req]]

\* the concatenation of the serialized replies of a log, in order
RECURSIVE Replies(_)
Replies(l) ==
    IF l = <<>> THEN "" ELSE serializeResp(Head(l).resp) \o Replies(Tail(l))

\* the bytes a log's passes erased from the stream
RECURSIVE Consumed(_)
Consumed(l) == IF l = <<>> THEN 0 ELSE Head(l).consumed + Consumed(Tail(l))

IsPrefix(a, b) == Len(a) <= Len(b) /\ a = SubSeq(b, 1, Len(a))

\* C1: for every connection, however its request bytes were split across
\* reads and its replies across partial writes, the passes executed are the
\* first frames of its byte stream in stream order (rejected bytes with
\* their protocol-error reply included), the unparsed rest of what was read
\* is its inbuf, and the bytes written followed by the bytes still in outbuf
\* are exactly the serialized replies in execution order; once the
\* connection is gone the bytes written are a prefix of them.
C1_InOrderNoLoss ==
    \A c \in Clients :
        /\ IsPrefix(Frames(log[c]), StreamFrames(Script[c]))
        /\ IsPrefix(written[c], Replies(log[c]))
        /\ peers[c].phase = "open" =>
              /\ written[c] \o conns[peers[c].fd].outbuf = Replies(log[c])
              /\ conns[peers[c].fd].inbuf
                    = SubSeq(Script[c], Consumed(log[c]) + 1,
                             peers[c].pos - Len(peers[c].rx))

\* a connection executed a command and rejected a byte, holds the first
\* bytes of the next frame in inbuf, and has written part of its first reply
C1_Witness ==
    \E c \in Clients :
        /\ peers[c].phase = "open"
        /\ Len(log[c]) >= 2
        /\ log[c][1].err = ""
        /\ log[c][2].err # ""
        /\ conns[peers[c].fd].inbuf # ""
        /\ written[c] # ""
        /\ Len(written[c]) < Len(serializeResp(log[c][1].resp))

\* C9: no read is issued on a connection and no request of it is dispatched
\* while its outbuf holds kMaxOutbufSize bytes or more, also within one
\* read-drain in which earlier replies filled outbuf.
C9_NoReadWhileFull ==
    sys.op = "read" =>
        /\ sys.outbuf_before < kMaxOutbufSize
        /\ \A k \in 1..Len(sys.dispatched_at) : sys.dispatched_at[k] < kMaxOutbufSize

\* a read returned data and its parse loop dispatched a request while outbuf
\* was at or above the cap
C9_Witness ==
    /\ sys.op = "read"
    /\ sys.n > 0
    /\ \E k \in 1..Len(sys.dispatched_at) : sys.dispatched_at[k] >= kMaxOutbufSize

\* C10: in any single iteration of the loop the bytes written across all
\* connections are at most kWriteBudgetPerLoop, and remainingWriteBudget is
\* what is left of it.
C10_WriteBudget ==
    /\ wroteThisLoop <= kWriteBudgetPerLoop
    /\ remainingWriteBudget = kWriteBudgetPerLoop - wroteThisLoop

\* the second write of an iteration used up the budget and left bytes of
\* its connection unwritten
C10_Witness ==
    /\ sys.op = "write"
    /\ sys.n > 0
    /\ sys.n < wroteThisLoop
    /\ wroteThisLoop = kWriteBudgetPerLoop
    /\ sys.outbuf_before > sys.n

(***************************************************************************)
(* Properties of the event loop across connections and of the parse loop.  *)
(***************************************************************************)

\* the connection of client c holds output not yet written
Pending(c) == peers[c].phase = "open" /\ conns[peers[c].fd].outbuf # ""

\* the step just taken wrote bytes to the socket of client c
WroteTo(c) == sys.op = "write" /\ sys.n > 0 /\ sys.fd = peers[c].fd

\* C12: when the parse loop run by a successful read exits, the inbound
\* buffer holds no complete frame: parsing what is left of it does not
\* yield Complete.
C12_NoCompleteFrameLeft ==
    (sys.op = "read" /\ sys.n > 0) =>
        ~tryParseRespMessage(conns[sys.fd].inbuf, RespValue("SimpleString")).ok

\* a read has returned a malformed byte together with a whole PING; the
\* client has sent nothing since and waits for the PING's reply
C12_Witness ==
    /\ sys.op = "read"
    /\ sys.n = 15
    /\ peers[4].phase = "open"
    /\ peers[4].pos = 15
    /\ peers[4].rx = ""
    /\ conns[peers[4].fd].inbuf = PingFrame
    /\ Replies(log[4]) = serializeResp(makeError("Unknown RESP type prefix"))

\* the passes the step just taken added to the log of client c
NewPasses(c) == SubSeq(log'[c], Len(log[c]) + 1, Len(log'[c]))

\* the bytes the passes of l erased from the inbound buffer
RECURSIVE Erased(_)
Erased(l) == IF l = <<>> THEN 0 ELSE Head(l).consumed + Erased(Tail(l))

\* the server holds the connection of client c: its Connection and its
\* pollfd are in place after a step that began with both
Held(c) ==
    /\ peers'[c].phase = "open"
    /\ peers'[c].fd = peers[c].fd
    /\ peers[c].fd \in DOMAIN conns'
    /\ \E k \in 2..Len(pfds') : pfds'[k].fd = peers[c].fd

\* C13: a read whose parse loop met a protocol error appended exactly one
\* RESP Error carrying the parser's message for it and erased at least one
\* byte, and a request answered with a command error got exactly that one
\* reply; in both cases the connection stays open.  Stated of every step
\* that adds passes to a client's log: the outbound buffer grows by one
\* reply per pass, the inbound buffer shrinks by what the passes erased,
\* and an Error reply leaves the connection held.
C13_ErrorsKeepConnection ==
    [][\A c \in Clients :
          log'[c] # log[c] =>
              /\ conns'[peers[c].fd].outbuf
                    = conns[peers[c].fd].outbuf \o Replies(NewPasses(c))
              /\ Len(conns'[peers[c].fd].inbuf)
                    = Len(conns[peers[c].fd].inbuf) + sys'.n - Erased(NewPasses(c))
              /\ \A k \in 1..Len(NewPasses(c)) :
                    LET pass == NewPasses(c)[k]
                    IN  /\ pass.err # "" =>
                              /\ pass.resp = makeError(pass.err)
                              /\ pass.consumed >= 1
                        /\ pass.resp.type = "Error" => Held(c)]_vars

\* the client was answered a protocol error and the three command errors,
\* every reply has been written and the connection is still open
C13_Witness ==
    /\ peers[5].phase = "open"
    /\ Len(log[5]) = 4
    /\ log[5][1].err = "Unknown RESP type prefix"
    /\ log[5][2].resp = makeError("ERR unknown command 'NOPE'")
    /\ log[5][3].resp = makeCommandError("wrong number of arguments for 'GET'")
    /\ log[5][4].resp = makeCommandError("invalid expire time")
    /\ written[5] = Replies(log[5])
    /\ peers[5].fd \in DOMAIN conns

\* C14: a call that returns Incomplete has written nothing the caller can
\* see: consumed and out hold the values they had before the call.
C14_IncompleteWritesNothing ==
    codec.ret = "Incomplete" =>
        /\ codec.out = codec.before.out
        /\ codec.consumed = codec.before.consumed

\* the header of a command array and part of its one child were parsed:
\* the call returned Incomplete and left an empty array in out
C14_Witness ==
    /\ codec.v = Cmd(<<"PING">>)
    /\ codec.fed = "*1\r\n$4\r\nPI"
    /\ codec.ret = "Incomplete"
    /\ codec.before.consumed = 0
    /\ codec.consumed = 0
    /\ codec.before.out = RespValue("SimpleString")
    /\ codec.out = makeArray(<<>>)

C16_RoundTrip ==
    /\ makeNullBulkString # makeNullArray
    /\ (codec.ret # "none" /\ codec.rest = "") =>
          /\ codec.ret = "Complete"
          /\ codec.consumed = Len(serializeResp(codec.v))
          /\ codec.out = codec.v

\* the encoding of the smallest long long was parsed and the digit loop's
\* overflow gave another integer
C16_Witness ==
    /\ codec.v = makeInteger(LLongMin)
    /\ codec.fed = serializeResp(makeInteger(LLongMin))
    /\ codec.ret = "Complete"
    /\ codec.out.type = "Integer"
    /\ codec.out.integer # LLongMin

\* the step recorded in l is a SET or DEL that completed without error
Mutated(l) ==
    \/ SetSucceeded(l)
    \/ OpOf(l) = "DEL" /\ l.resp.type = "Integer"

\* C17: while AOF is enabled, each SET or DEL that executes successfully
\* appends exactly its re-serialized frame to the AOF file.
C17_MutationsAppended ==
    [][(engine.aof_config.enabled /\ Mutated(last')) =>
          engine'.aof_disk = engine.aof_disk \o serializeResp(last'.cmd)]_vars

\* AOF ENABLE was issued while AOF was enabled, and a SET that returned OK
\* with AOF enabled left the file as it was
C17_Witness ==
    /\ engine.aof_config.enabled
    /\ engine.aof_file.is_open
    /\ engine.aof_file.fail
    /\ SetSucceeded(last)
    /\ engine.aof_disk = ""

\* C18: the AOF file changes only by a SET or DEL that completes without
\* error, which appends its frame: every other command and every SET or
\* DEL that returns an error leaves the file as it is.
C18_OnlyMutationsWrite ==
    [][engine'.aof_disk # engine.aof_disk =>
          /\ Mutated(last')
          /\ engine'.aof_disk = engine.aof_disk \o serializeResp(last'.cmd)]_vars

\* the file holds a SET and a DEL, AOF is enabled and writing, and the
\* step just taken is a DEL that returned an error
C18_Witness ==
    /\ engine.aof_config.enabled
    /\ ~engine.aof_file.fail
    /\ engine.aof_disk = serializeResp(Cmd(<<"SET", "a", "1">>))
                            \o serializeResp(Cmd(<<"DEL", "a">>))
    /\ last.cmd = Cmd(<<"DEL">>)
    /\ last.resp.type = "Error"

\* the RESP values of a byte stream, in order
Requests(frames) ==
    SelectSeq([k \in 1..Len(frames) |-> frames[k]], LAMBDA f : f.err = "")

Values(stream) ==
    [k \in 1..Len(Requests(StreamFrames(stream))) |->
        Requests(StreamFrames(stream))[k].req]

\* C19: when the process starts and the AOF file exists, every RESP value
\* in the file is dispatched before any client is served, and the file is
\* left as it was.
C19_StartupReplays ==
    [][boot'.starts # boot.starts =>
          /\ boot'.replayed = Values(engine.aof_disk)
          /\ engine'.aof_disk = engine.aof_disk]_vars

\* the process started with an AOF file that holds SET a 1, dispatched
\* nothing from it, and a GET of the key finds nothing
C19_Witness ==
    /\ boot.starts = 1
    /\ boot.file = SetA
    /\ engine.aof_disk = SetA
    /\ boot.replayed = <<>>
    /\ last.cmd = Cmd(<<"GET", "a">>)
    /\ last.resp = makeNullBulkString

\* C20: replayAOF never reports completion after the parser rejected a
\* frame of the file, and when it reports completion it has dispatched
\* every whole frame of the file.
C20_RejectedAborts ==
    /\ boot.rejected => boot.reported # "AOF replay completed"
    /\ boot.reported = "AOF replay completed" => boot.replayed = Values(boot.file)

\* replayAOF ran on a file with a stray byte between SET a 1 and SET b 22:
\* the parser rejected it, SET a 1 alone was dispatched, and completion
\* was reported
C20_Witness ==
    /\ boot.file = SetA \o "x" \o SetB
    /\ boot.rejected
    /\ boot.reported = "AOF replay completed"
    /\ boot.replayed = <<Cmd(<<"SET", "a", "1">>)>>
    /\ DOMAIN engine.kv_cache = {"a"}

\* C11: no connection starves another: a connection that holds pending
\* output (its socket writable throughout, as every socket of SpecStarve
\* is) eventually gets bytes written, whatever output the connections
\* served before it in the reverse pass hold.
C11_EventuallyWritten == \A c \in {1, 2} : Pending(c) ~> WroteTo(c)

\* the pass is at client 1, whose socket is writable and whose replies are
\* pending, and the connection served before it used the whole budget
C11_Witness ==
    /\ pc = "clients"
    /\ peers[1].phase = "open"
    /\ pfds[fdIndex].fd = peers[1].fd
    /\ "POLLOUT" \in pfds[fdIndex].revents
    /\ conns[peers[1].fd].outbuf # ""
    /\ remainingWriteBudget = 0
    /\ peers[2].phase = "open"
    /\ Len(conns[peers[2].fd].outbuf) >= kWriteBudgetPerLoop

(***************************************************************************)
(* Properties of the command set: arity, the memory estimate, startup.     *)
(***************************************************************************)

\* the command set
CommandSet == {"PING", "ECHO", "SET", "GET", "DEL", "CONFIG", "AOF", "INFO"}

\* the arity of each command: PING 1-2, ECHO 2, SET >= 3 with options in
\* pairs, GET 2, DEL >= 2, CONFIG SET 4, CONFIG GET 3, AOF 2, INFO 1
InArity(args) ==
    LET op == toUpperASCII(args[1])
        n == Len(args)
    IN  CASE op = "PING" -> n \in {1, 2}
          [] op = "ECHO" -> n = 2
          [] op = "SET" -> n >= 3 /\ (n - 3) % 2 = 0
          [] op = "GET" -> n = 2
          [] op = "DEL" -> n >= 2
          [] op = "CONFIG" ->
                IF n < 2 THEN FALSE
                ELSE IF toUpperASCII(args[2]) = "SET" THEN n = 4
                ELSE IF toUpperASCII(args[2]) = "GET" THEN n = 3
                ELSE TRUE
          [] op = "AOF" -> n = 2
          [] op = "INFO" -> n = 1
          [] OTHER -> TRUE

\* the name the arity error quotes
QuotedName(args) ==
    LET op == toUpperASCII(args[1])
    IN  IF op = "CONFIG" /\ Len(args) >= 2 /\ toUpperASCII(args[2]) \in {"SET", "GET"}
        THEN "CONFIG " \o toUpperASCII(args[2])
        ELSE op

\* C21: a recognised command with a number of arguments outside its arity
\* returns ERR wrong number of arguments for '<COMMAND>', and only a name
\* outside the command set returns ERR unknown command '<name>'.
C21_ArityErrors ==
    last # NoStep =>
        /\ (OpOf(last) \in CommandSet /\ ~InArity(ArgsOf(last.cmd))) =>
              last.resp = makeCommandError("wrong number of arguments for '"
                                           \o QuotedName(ArgsOf(last.cmd)) \o "'")
        /\ last.resp = makeError("ERR unknown command '" \o ArgsOf(last.cmd)[1] \o "'") =>
              OpOf(last) \notin CommandSet

\* INFO with one argument too many was answered as an unknown command
C21_Witness ==
    /\ last.cmd = Cmd(<<"INFO", "x">>)
    /\ last.resp = makeError("ERR unknown command 'INFO'")

\* C22: the used_memory value reported by INFO equals the estimated memory
\* of the current keyspace, after any sequence of SET, DEL, expiry and
\* eviction.
C22_InfoReportsEstimate ==
    last.cmd = Cmd(<<"INFO">>) =>
        IsPrefix("used_memory:" \o to_string(estimateMemoryUsage(engine.kv_cache))
                     \o "\r\n",
                 last.resp.buf)

\* INFO after a first SET reported used_memory:0 with the key in the
\* keyspace
C22_Witness ==
    /\ last.cmd = Cmd(<<"INFO">>)
    /\ DOMAIN engine.kv_cache = {"a"}
    /\ IsPrefix("used_memory:0\r\n", last.resp.buf)
    /\ estimateMemoryUsage(engine.kv_cache) > 0

\* C23: the listening port is 6380 when no command-line argument is given,
\* and is the given port when one positional port argument is supplied.
C23_PortSelection ==
    /\ boot.argv = <<>> => boot.port = 6380
    /\ Len(boot.argv) = 1 => boot.port = stoll(boot.argv[1]).val

\* the process was started as `redis-clone 6379` and listens on 6380
C23_Witness ==
    /\ boot.starts > 0
    /\ boot.argv = <<"6379">>
    /\ boot.port = 6380

(***************************************************************************)
(* Properties of the event loop: isolation of connections, the clients    *)
(* pass, the pollset and the connection table.                             *)
(***************************************************************************)

\* the descriptor the clients pass is handling, 0 outside the pass
Handling == IF pc \in {"clients", "read", "write"} THEN pfds[fdIndex].fd ELSE 0

\* C24: errors never leak across connections: no step that handles one
\* connection, and no bytes, error or hang-up on it, destroys a different
\* connection, alters its buffers or terminates the event loop.
C24_NoLeakAcrossConnections ==
    [][/\ pc' \notin {"abort", "exit"}
       /\ \A c \in Clients :
            (peers[c].phase = "open" /\ peers[c].fd # Handling) =>
                /\ peers'[c].phase = "open"
                /\ peers[c].fd \in DOMAIN conns'
                /\ conns'[peers[c].fd] = conns[peers[c].fd]]_vars

\* the process was terminated while it read client 6's oversized count
\* header, and client 1's connection, with its replies still pending, went
\* with it
C24_Witness ==
    /\ pc = "abort"
    /\ sys.op = "read"
    /\ peers[6].pos = Len(Script[6])
    /\ peers[1].phase = "dropped"
    /\ peers[1].pos = Len(Script[1])
    /\ Len(written[1]) < Len(serializeResp(makeSimpleString("PONG")))

\* the clients pass is under way
InPass == pc \in {"clients", "read", "write"}

\* the descriptors at the positions the pass has still to take up, the one
\* it is at included
Ahead == {pfds[k].fd : k \in 2..(IF InPass THEN fdIndex ELSE 1)}

\* C25: in every loop iteration each connection that poll reported ready is
\* handled exactly once or removed: the pass takes up no descriptor twice
\* and none that was not ready, every ready descriptor not yet taken up is
\* still ahead of the pass, and at the end of the pass all were taken up.
C25_PassHandlesEachOnce ==
    pc \in {"top", "clients", "read", "write"} =>
        /\ \A i, j \in 1..Len(round.seen) : i # j => round.seen[i] # round.seen[j]
        /\ Range(round.seen) \subseteq round.ready
        /\ round.ready \ Range(round.seen) \subseteq Ahead

\* three connections were ready; the pass handled the last, removed the
\* middle one, which moved the last into its place, and is now at the first
C25_Witness ==
    /\ pc = "clients"
    /\ fdIndex = 2
    /\ Len(pfds) = 3
    /\ Cardinality(round.ready) = 3
    /\ Len(round.seen) = 2
    /\ round.seen[1] = pfds[3].fd
    /\ round.seen[2] \notin DOMAIN conns
    /\ pfds[2].fd \in round.ready

\* the client descriptors the process holds open: accepted and not closed
OpenDescriptors == {peers[c].fd : c \in {d \in Clients : peers[d].phase = "open"}}

\* C28: at the top of the event loop the pollset and the connection table
\* agree: pfds[0] is the listening socket, the descriptors behind it are
\* pairwise distinct and are exactly the keys of conns, and the descriptor
\* of a removed connection is closed and is in neither structure.
C28_PollsetMatchesTable ==
    pc = "top" =>
        /\ Len(pfds) >= 1 /\ pfds[1].fd = lfd
        /\ \A i, j \in 2..Len(pfds) : i # j => pfds[i].fd # pfds[j].fd
        /\ {pfds[k].fd : k \in 2..Len(pfds)} = DOMAIN conns
        /\ lfd \notin DOMAIN conns
        /\ DOMAIN conns = OpenDescriptors
        /\ \A c, d \in Clients :
              (c # d /\ peers[c].phase = "open" /\ peers[d].phase = "open")
                 => peers[c].fd # peers[d].fd

\* two connections are held and a third was removed: its descriptor is in
\* neither structure
C28_Witness ==
    /\ pc = "top"
    /\ Len(pfds) = 3
    /\ \E c \in Clients :
          /\ peers[c].phase = "dropped"
          /\ peers[c].fd \notin DOMAIN conns
          /\ \A k \in 1..Len(pfds) : pfds[k].fd # peers[c].fd

(***************************************************************************)
(* Properties of the parser on a growing buffer.                           *)
(***************************************************************************)

\* line ends, more bytes of them than any length or count that a buffer
\* of MaxInbuf bytes announces: they end the line under way, fill a payload
\* and stand where an element or a payload's CRLF is expected
Filler ==
    LET e8 == "\r\n\r\n\r\n\r\n\r\n\r\n\r\n\r\n"
    IN  e8 \o e8 \o e8 \o e8 \o e8 \o e8 \o e8 \o e8

\* what a client may send next to end a frame that is under way: the end
\* of the line it is in, with or without a digit before it, and enough
\* bytes to fill any payload or element announced
Completions ==
    {Filler, "\n" \o Filler, "0" \o Filler, "x" \o Filler}

\* the parser returns Complete or ProtocolError on the buffer
Settled(data) ==
    LET r == tryParseRespMessage(data, RespValue("SimpleString"))
    IN  r.ok \/ r.err # ""

\* C26: whenever tryParseRespMessage returns Incomplete on a buffer, some
\* extension of the buffer parses to Complete or ProtocolError: no buffer
\* is reported Incomplete whatever the client sends next.
C26_IncompleteCanSettle ==
    codec.ret = "Incomplete" => \E ext \in Completions : Settled(codec.fed \o ext)

\* the buffer holds a whole length line that is not a number: the parser
\* reported Incomplete, and reports it again with every extension
C26_Witness ==
    /\ codec.fed = "$x\r\n"
    /\ codec.ret = "Incomplete"
    /\ \A ext \in Completions \cup Pieces \cup {"1\r\nx\r\n", "-1\r\n", "xxxxxxxx"} :
          ~Settled(codec.fed \o ext)

(***************************************************************************)
(* Properties of the commands that fail.                                   *)
(***************************************************************************)

\* the step made was a SET, GET or DEL that returned an error
RejectedStep(l) ==
    /\ l.cmd.type = "Array" /\ ~l.cmd.is_null /\ l.cmd.array # <<>>
    /\ toUpperASCII(ArgsOf(l.cmd)[1]) \in {"SET", "GET", "DEL"}
    /\ l.resp.type = "Error"

\* C27: a SET that returns an error (wrong arity, dangling option, invalid
\* expire time, non-integer TTL, unknown option) and a GET or DEL with the
\* wrong number of arguments leave the keyspace, the expiry index, the
\* memory statistics and the AOF file as they were; a failing SET evicts
\* nothing.
C27_ErrorsChangeNothing ==
    [][RejectedStep(last') =>
          /\ engine' = engine
          /\ last'.evicted = <<>>]_vars

\* a SET was rejected while the estimate was over the memory limit, the
\* AOF was open and the key it names was in the keyspace with a TTL
C27_Witness ==
    /\ last.cmd = Cmd(<<"SET", "a", "1", "EX", "0">>)
    /\ last.resp = makeCommandError("invalid expire time")
    /\ estimateMemoryUsage(engine.kv_cache) > engine.mem_stats.memory_limit
    /\ engine.mem_stats.estimated_memory # estimateMemoryUsage(engine.kv_cache)
    /\ engine.aof_config.enabled /\ engine.aof_file.is_open /\ engine.aof_disk # ""
    /\ "a" \in DOMAIN engine.expires

(***************************************************************************)
(* Properties of replay after an execution.                                *)
(***************************************************************************)

\* the key-to-value mapping of a keyspace
Mapping(st) == [k \in DOMAIN st.kv_cache |-> st.kv_cache[k].val]

====
